---------------------------- MODULE Spec2Model ----------------------------
(***************************************************************************)
(* A model of the statistical core of the Stat-tools repository:           *)
(*   - pearson-r_crit_app_gui/stats_utils.py  (critical value of r)        *)
(*   - pearson-r_crit_app_gui/excel_utils.py  (correlation of two columns) *)
(*   - Anova/ANOVA1.py, anova.py              (one-way ANOVA)              *)
(*                                                                         *)
(* Numbers.  Python floats are modelled as records: Num(v) is a finite     *)
(* number held as an integer v in a fixed-point unit that depends on the   *)
(* quantity (alpha: 1/AlphaScale, probability mass: 1/MassScale, t values: *)
(* 1/TScale, r values: 1/RScale, sample-size text: 1/NScale), NaN,         *)
(* PosInf and NegInf are the IEEE special values.  Bad is a text that      *)
(* float() cannot parse.  Comparisons follow IEEE: any comparison with NaN *)
(* is false.  ANOVA quantities are exact rationals Rat(n, d).              *)
(***************************************************************************)
EXTENDS Integers, Sequences, FiniteSets, TLC

VARIABLES
    crit_call,     \* arguments of the last critical-value request
    crit_mass,     \* probability mass handed to t.ppf by that request
    crit_out,      \* what the request produced: a result, an error dialog, or nothing yet
    excel,         \* the Excel file: whether it exists, its columns' cells and dtypes
    corr_call,     \* arguments of the last correlation request
    corr_out,      \* what the request produced
    groups,        \* the group set handed to the ANOVA scripts
    anova_out,     \* what manual_anova / create_anova_report / main produced
    prompt_msg,    \* what get_user_input printed for the last line entered
    group1_text,   \* t-test window: the text of the first scores box
    group2_text,   \* the text of the second scores box
    ttest_results, \* self.results of the t-test window
    results_text,  \* what the results box shows
    save_button,   \* state of the save button
    status_label,  \* text of the status label
    ttest_dialog,  \* the message box shown by the last operation
    ttest_doc,     \* the document save_to_docx wrote last
    now,           \* the clock that datetime.now() reads
    report_entries, \* the texts of the report title and byline entries
    entries,       \* critical-value window: the texts and menu choices of its entries
    excel_frame,   \* the Excel frame: whether a file is loaded, the two columns chosen
    current_results,       \* self.current_results
    calculate_button,      \* state of the calculate button
    analyze_button,        \* state of the analyze button
    threads,               \* the worker threads in flight, each with its locals
    after_queue,           \* the callbacks handed to self.after(0, ...), oldest first
    results_display,       \* what the manual tab's results display shows
    excel_results_display, \* what the Excel tab's results display shows
    gui_dialog,            \* the message box shown last
    saver,                 \* save_results: where it stands, and its document so far
    saved_doc,             \* the document save_results wrote last
    threads_started,       \* how many worker threads have been started
    results_origin,        \* the worker that assigned current_results last
    wm_freq,               \* weighted_mean.py: the four lines typed at its prompts
    wm_out                 \* what weighted_mean printed, or the error that ended it

vars == <<crit_call, crit_mass, crit_out, excel, corr_call, corr_out,
          groups, anova_out, prompt_msg,
          group1_text, group2_text, ttest_results, results_text, save_button,
          status_label, ttest_dialog, ttest_doc, now, report_entries,
          entries, excel_frame, current_results, calculate_button, analyze_button,
          threads, after_queue, results_display, excel_results_display, gui_dialog,
          saver, saved_doc, threads_started, results_origin, wm_freq,
          wm_out>>

critVars  == <<crit_call, crit_mass, crit_out>>
corrVars  == <<excel, corr_call, corr_out>>
anovaVars == <<groups, anova_out, prompt_msg>>
ttestVars == <<group1_text, group2_text, ttest_results, results_text, save_button,
               status_label, ttest_dialog, ttest_doc, now, report_entries>>
guiVars   == <<entries, excel_frame, current_results, calculate_button, analyze_button,
               threads, after_queue, results_display, excel_results_display,
               gui_dialog, saver, saved_doc, threads_started, results_origin>>
wmVars    == <<wm_freq, wm_out>>

-----------------------------------------------------------------------------
(* Floats *)

Num(v)  == [k |-> "num", v |-> v]
NaN     == [k |-> "nan", v |-> 0]
PosInf  == [k |-> "inf", v |-> 1]
NegInf  == [k |-> "inf", v |-> -1]
Bad     == [k |-> "bad", v |-> 0]
None    == [kind |-> "none", k |-> "none"]

IsNum(x) == x.k = "num"
IsNaN(x) == x.k = "nan"
IsInf(x) == x.k = "inf"

\* x < y, x <= y, x > y, x >= y on floats of the same unit (IEEE: false with NaN)
FLt(x, y) ==
    /\ ~IsNaN(x) /\ ~IsNaN(y)
    /\ CASE IsNum(x) /\ IsNum(y) -> x.v < y.v
         [] IsNum(x) /\ IsInf(y) -> y.v = 1
         [] IsInf(x) /\ IsNum(y) -> x.v = -1
         [] OTHER                -> x.v < y.v
FLe(x, y) == ~IsNaN(x) /\ ~IsNaN(y) /\ (x = y \/ FLt(x, y))
FGt(x, y) == FLt(y, x)
FGe(x, y) == FLe(y, x)

\* abs(x)
FAbs(x) ==
    CASE IsNum(x) -> Num(IF x.v < 0 THEN -x.v ELSE x.v)
      [] IsInf(x) -> PosInf
      [] OTHER    -> x

\* floor of the square root of a natural number
RECURSIVE ISqrtBin(_, _, _)
ISqrtBin(n, lo, hi) ==
    IF hi - lo <= 1 THEN lo
    ELSE LET mid == (lo + hi) \div 2
         IN  IF mid * mid <= n THEN ISqrtBin(n, mid, hi) ELSE ISqrtBin(n, lo, mid)
ISqrt(n) == IF n < 2 THEN n ELSE ISqrtBin(n, 1, IF n < 46340 THEN n ELSE 46340)

-----------------------------------------------------------------------------
(* Units and input sets *)

AlphaScale == 10^4            \* alpha = v / AlphaScale
MassScale  == 2 * AlphaScale  \* probability mass = v / MassScale
TScale     == 10^2            \* t = v / TScale
RScale     == 10^3            \* r = v / RScale
NScale     == 10^1            \* text of the sample-size entry = v / NScale

MaxN == 6                     \* largest sample size tried

TwoTailed == "two-tailed"
OneTailed == "one-tailed"
\* the GUI's option menu offers the first two; a direct caller may pass any string
TestTypes == {TwoTailed, OneTailed, "upper"}

ValidAlphas   == {Num(500), Num(1000), Num(5000)}          \* 0.05, 0.10, 0.50
InvalidAlphas == {Num(0), Num(AlphaScale), Num(-500), Num(15000), NaN}
AlphaInputs   == ValidAlphas \cup InvalidAlphas
AlphaTexts    == AlphaInputs \cup {Bad}

NInputs == 0 .. MaxN
NTexts  == {Bad, NaN, PosInf, Num(25), Num(35)} \cup {Num(n * NScale) : n \in NInputs}

-----------------------------------------------------------------------------
(* stats_utils.py *)

\* validate_sample_size(n): <<is_valid, error_message>> for the text n
validate_sample_size(n) ==
    IF n = Bad THEN <<FALSE, "Sample size must be a valid number">>
    ELSE IF FLt(n, Num(3 * NScale)) THEN <<FALSE, "Sample size must be at least 3">>
    ELSE IF ~(IsNum(n) /\ n.v % NScale = 0)
         THEN <<FALSE, "Sample size must be a whole number">>
    ELSE <<TRUE, "">>

\* validate_alpha(alpha): <<is_valid, error_message>> for the text or float alpha
validate_alpha(alpha) ==
    IF alpha = Bad THEN <<FALSE, "Alpha must be a valid number">>
    ELSE IF FLe(alpha, Num(0)) \/ FGe(alpha, Num(AlphaScale))
         THEN <<FALSE, "Alpha must be between 0 and 1 (exclusive)">>
    ELSE <<TRUE, "">>

\* a degrees-of-freedom computation that subtracts one parameter only
compute_degrees_of_freedom_off(n) == n - 1

\* compute_degrees_of_freedom(n)
compute_degrees_of_freedom(n) == n - 2

\* scipy.stats.t.ppf(q, df) for the quantiles 0.75, 0.90, 0.95, 0.975 (units of
\* 1/MassScale) and 1 <= df <= 8, to two decimals (units of 1/TScale)
TTable(q, d) ==
    CASE q = 15000 -> <<100, 82, 76, 74, 73, 72, 71, 71>>[d]
      [] q = 18000 -> <<308, 189, 164, 153, 148, 144, 141, 140>>[d]
      [] q = 19000 -> <<631, 292, 235, 213, 202, 194, 189, 186>>[d]
      [] q = 19500 -> <<1271, 430, 318, 278, 257, 245, 236, 231>>[d]

\* scipy.stats.t.ppf(q, df): nan outside [0, 1] or for df <= 0, -inf at 0, inf at 1,
\* 0 at one half, antisymmetric about one half
TPpf(q, d) ==
    IF ~IsNum(q) \/ d <= 0 THEN NaN
    ELSE IF q.v < 0 \/ q.v > MassScale THEN NaN
    ELSE IF q.v = 0 THEN NegInf
    ELSE IF q.v = MassScale THEN PosInf
    ELSE IF 2 * q.v = MassScale THEN Num(0)
    ELSE IF 2 * q.v > MassScale THEN Num(TTable(q.v, d))
    ELSE Num(-TTable(MassScale - q.v, d))

\* the first argument of t.ppf in compute_t_critical: 1 - alpha / 2 for
\* "two-tailed", 1 - alpha otherwise
ProbabilityMassSwapped(alpha, test_type) ==
    IF ~IsNum(alpha) THEN NaN
    ELSE IF test_type = TwoTailed THEN Num(2 * (AlphaScale - alpha.v))
    ELSE Num(2 * AlphaScale - alpha.v)

ProbabilityMass(alpha, test_type) ==
    IF ~IsNum(alpha) THEN NaN
    ELSE IF test_type = TwoTailed THEN Num(2 * AlphaScale - alpha.v)
    ELSE Num(2 * (AlphaScale - alpha.v))

\* compute_t_critical(alpha, df, test_type)
compute_t_critical(alpha, d, test_type) == TPpf(ProbabilityMass(alpha, test_type), d)

\* np.sqrt(t_crit**2 / (t_crit**2 + df))
RFromT(t, d) ==
    IF ~IsNum(t) THEN NaN                   \* nan, or inf / inf
    ELSE IF t.v * t.v + d * TScale * TScale = 0 THEN NaN          \* 0 / 0
    ELSE LET ratio == (t.v * t.v * RScale) \div (t.v * t.v + d * TScale * TScale)
         IN  Num(ISqrt(ratio * RScale))

\* a conversion that divides by t^2 + n instead of t^2 + df
compute_pearson_r_critical_n(n, alpha, test_type) ==
    LET d      == compute_degrees_of_freedom(n)
        t_crit == compute_t_critical(alpha, d, test_type)
        r_crit == RFromT(t_crit, n)
    IN  [sample_size        |-> n,
         alpha              |-> alpha,
         test_type          |-> test_type,
         degrees_of_freedom |-> d,
         t_critical         |-> t_crit,
         r_critical         |-> r_crit]

\* compute_pearson_r_critical(n, alpha, test_type): no validation of n or alpha
compute_pearson_r_critical(n, alpha, test_type) ==
    LET d      == compute_degrees_of_freedom(n)
        t_crit == compute_t_critical(alpha, d, test_type)
        r_crit == RFromT(t_crit, d)
    IN  [sample_size        |-> n,
         alpha              |-> alpha,
         test_type          |-> test_type,
         degrees_of_freedom |-> d,
         t_critical         |-> t_crit,
         r_critical         |-> r_crit]

-----------------------------------------------------------------------------
(* The critical-value requests: a direct call of compute_pearson_r_critical, *)
(* and the manual tab of the GUI (main.py), where on_calculate_click         *)
(* validates the two entry texts and calculate_in_thread then reads them     *)
(* again and computes.  ManualCalculate is the click followed by its worker  *)
(* with no edit of the entries in between.                                   *)

CritResult(n, alpha, test_type) ==
    [kind |-> "result",
     args |-> [n |-> n, alpha |-> alpha, test_type |-> test_type],
     res  |-> compute_pearson_r_critical(n, alpha, test_type)]

ErrorDialog(title, msg) == [kind |-> "error", title |-> title, msg |-> msg]

\* int(float(text)) for a finite text: truncation toward zero
IntOfText(x) == IF x.v >= 0 THEN x.v \div NScale ELSE -((-x.v) \div NScale)

\* validate_inputs(): <<ok, error dialog>>
validate_inputs(n_text, alpha_text) ==
    LET vn == validate_sample_size(n_text)
        va == validate_alpha(alpha_text)
    IN  IF ~vn[1] THEN <<FALSE, ErrorDialog("Input Error", vn[2])>>
        ELSE IF ~va[1] THEN <<FALSE, ErrorDialog("Input Error", va[2])>>
        ELSE <<TRUE, None>>

CallComputeCritical(n, alpha, test_type) ==
    /\ crit_call' = [op |-> "compute_pearson_r_critical", n_text |-> Num(n * NScale),
                     alpha_text |-> alpha, test_type |-> test_type]
    /\ crit_mass' = ProbabilityMass(alpha, test_type)
    /\ crit_out'  = CritResult(n, alpha, test_type)
    /\ UNCHANGED <<corrVars, anovaVars, ttestVars, guiVars, wmVars>>

ManualCalculate(n_text, alpha_text, test_type) ==
    LET ok == validate_inputs(n_text, alpha_text)
    IN  /\ crit_call' = [op |-> "on_calculate_click", n_text |-> n_text,
                         alpha_text |-> alpha_text, test_type |-> test_type]
        /\ IF ~ok[1]
           THEN /\ crit_mass' = None
                /\ crit_out'  = ok[2]
           ELSE /\ crit_mass' = ProbabilityMass(alpha_text, test_type)
                /\ crit_out'  = CritResult(IntOfText(n_text), alpha_text, test_type)
        /\ UNCHANGED <<corrVars, anovaVars, ttestVars, guiVars, wmVars>>

CritNext ==
    \/ \E n \in NInputs, alpha \in AlphaInputs, tt \in TestTypes :
           CallComputeCritical(n, alpha, tt)
    \/ \E n_text \in NTexts, alpha_text \in AlphaTexts, tt \in {TwoTailed, OneTailed} :
           ManualCalculate(n_text, alpha_text, tt)

-----------------------------------------------------------------------------
(* excel_utils.py.  A DataFrame is [data |-> column -> sequence of cells,   *)
(* dtype |-> column -> "number" or "object"]; a cell is Num(v) (an integer  *)
(* value, unit 1) or NaN (missing).  p_value is left out of the results: no *)
(* operation modelled here reads it.                                        *)

NRows  == 4                   \* rows of the Excel sheet
CellValues == {0, 1}          \* the values a cell that is not missing may hold

Cols        == {"A", "B", "C"}
ColumnOrder == <<"A", "B", "C">>

Columns(frame) == DOMAIN frame.data
NumRows(frame) == Len(frame.data["A"])

RECURSIVE SeqSum(_)
SeqSum(s) == IF s = <<>> THEN 0 ELSE Head(s) + SeqSum(Tail(s))

\* read_excel_file(filepath): <<success, dataframe, error_message>>
read_excel_file(f) ==
    IF ~f.found THEN <<FALSE, None, "File not found">>
    ELSE IF NumRows(f) = 0 THEN <<FALSE, None, "The Excel file is empty">>
    ELSE <<TRUE, [data |-> f.data, dtype |-> f.dtype], "">>

\* get_numeric_columns(df), in column order
get_numeric_columns(frame) ==
    SelectSeq(ColumnOrder, LAMBDA c : frame.dtype[c] = "number")

\* a dropna that keeps a row unless both of its cells are missing (how="all")
DropNaAll(frame, col1, col2) ==
    SelectSeq([i \in 1 .. NumRows(frame) |-> i],
              LAMBDA i : ~(IsNaN(frame.data[col1][i]) /\ IsNaN(frame.data[col2][i])))

\* df[[col1, col2]].dropna(): the indices of the rows that are kept, in order
DropNa(frame, col1, col2) ==
    SelectSeq([i \in 1 .. NumRows(frame) |-> i],
              LAMBDA i : ~IsNaN(frame.data[col1][i]) /\ ~IsNaN(frame.data[col2][i]))

\* clean_data[col].values: the column's values at the kept rows
ValuesAt(frame, col, rows) == [j \in 1 .. Len(rows) |-> frame.data[col][rows[j]].v]

\* n * sum(x*y) - sum(x) * sum(y): n^2 times the covariance of two equally long series
CoMoment(x, y) ==
    Len(x) * SeqSum([j \in 1 .. Len(x) |-> x[j] * y[j]]) - SeqSum(x) * SeqSum(y)

\* Series.std() == 0 for a series of at least two values
StdIsZero(x) == CoMoment(x, x) = 0

\* a validation that tests the first column's variance twice and never the second's
validate_columns_for_correlation_col1(frame, col1, col2) ==
    IF col1 \notin Columns(frame) THEN <<FALSE, "Column col1 not found in the Excel file">>
    ELSE IF col2 \notin Columns(frame) THEN <<FALSE, "Column col2 not found in the Excel file">>
    ELSE IF frame.dtype[col1] # "number" THEN <<FALSE, "Column col1 is not numeric">>
    ELSE IF frame.dtype[col2] # "number" THEN <<FALSE, "Column col2 is not numeric">>
    ELSE LET clean == DropNa(frame, col1, col2)
         IN  IF Len(clean) < 3 THEN <<FALSE, "Not enough valid data points (need at least 3)">>
             ELSE IF StdIsZero(ValuesAt(frame, col1, clean))
                  THEN <<FALSE, "Column col1 has zero variance (all values are the same)">>
             ELSE <<TRUE, "">>

\* validate_columns_for_correlation(df, col1, col2): <<is_valid, error_message>>
validate_columns_for_correlation(frame, col1, col2) ==
    IF col1 \notin Columns(frame) THEN <<FALSE, "Column col1 not found in the Excel file">>
    ELSE IF col2 \notin Columns(frame) THEN <<FALSE, "Column col2 not found in the Excel file">>
    ELSE IF frame.dtype[col1] # "number" THEN <<FALSE, "Column col1 is not numeric">>
    ELSE IF frame.dtype[col2] # "number" THEN <<FALSE, "Column col2 is not numeric">>
    ELSE LET clean == DropNa(frame, col1, col2)
         IN  IF Len(clean) < 3 THEN <<FALSE, "Not enough valid data points (need at least 3)">>
             ELSE IF StdIsZero(ValuesAt(frame, col1, clean))
                  THEN <<FALSE, "Column col1 has zero variance (all values are the same)">>
             ELSE IF StdIsZero(ValuesAt(frame, col2, clean))
                  THEN <<FALSE, "Column col2 has zero variance (all values are the same)">>
             ELSE <<TRUE, "">>

\* scipy.stats.pearsonr(x, y)[0]: nan for a constant input, else
\* cov(x, y) / sqrt(var(x) * var(y)) in units of 1/RScale.  (pearsonr raises for
\* fewer than 2 values; every caller below has validated at least 3.)
PearsonR(x, y) ==
    LET cxy == CoMoment(x, y)
        cxx == CoMoment(x, x)
        cyy == CoMoment(y, y)
    IN  IF cxx = 0 \/ cyy = 0 THEN NaN
        ELSE LET mag == ISqrt((cxy * cxy * RScale * RScale) \div (cxx * cyy))
             IN  Num(IF cxy < 0 THEN -mag ELSE mag)

\* compute_correlation_from_data with the mutated dropna
compute_correlation_from_data_all(frame, col1, col2) ==
    LET clean == DropNaAll(frame, col1, col2)
        x     == ValuesAt(frame, col1, clean)
        y     == ValuesAt(frame, col2, clean)
    IN  [column_1 |-> col1, column_2 |-> col2, sample_size |-> Len(x),
         r_value |-> PearsonR(x, y), original_rows |-> NumRows(frame),
         rows_with_missing |-> NumRows(frame) - Len(x),
         used |-> clean, x |-> x, y |-> y]

\* compute_correlation_from_data(df, col1, col2).  used, x and y are the locals
\* clean_data.index, x and y, kept so that properties can speak of them.
compute_correlation_from_data(frame, col1, col2) ==
    LET clean == DropNa(frame, col1, col2)
        x     == ValuesAt(frame, col1, clean)
        y     == ValuesAt(frame, col2, clean)
    IN  [column_1 |-> col1, column_2 |-> col2, sample_size |-> Len(x),
         r_value |-> PearsonR(x, y), original_rows |-> NumRows(frame),
         rows_with_missing |-> NumRows(frame) - Len(x),
         used |-> clean, x |-> x, y |-> y]

\* {**corr_results, **critical_results, 'is_significant': is_significant}
FinalResults(corr, critical, is_significant) ==
    [column_1 |-> corr.column_1, column_2 |-> corr.column_2,
     r_value |-> corr.r_value, original_rows |-> corr.original_rows,
     rows_with_missing |-> corr.rows_with_missing,
     used |-> corr.used, x |-> corr.x, y |-> corr.y,
     sample_size |-> critical.sample_size, alpha |-> critical.alpha,
     test_type |-> critical.test_type,
     degrees_of_freedom |-> critical.degrees_of_freedom,
     t_critical |-> critical.t_critical, r_critical |-> critical.r_critical,
     is_significant |-> is_significant]

\* an analysis that compares r itself, not |r|, with the critical value
analyze_excel_correlation_signed(f, col1, col2, alpha, test_type) ==
    LET rd == read_excel_file(f)
    IN  IF ~rd[1] THEN <<FALSE, None, rd[3]>>
        ELSE LET v == validate_columns_for_correlation(rd[2], col1, col2)
             IN  IF ~v[1] THEN <<FALSE, None, v[2]>>
                 ELSE LET corr == compute_correlation_from_data(rd[2], col1, col2)
                          critical == compute_pearson_r_critical(corr.sample_size,
                                                                 alpha, test_type)
                          is_significant == FGt(corr.r_value, critical.r_critical)
                      IN  <<TRUE, FinalResults(corr, critical, is_significant), "">>

\* analyze_excel_correlation(filepath, col1, col2, alpha, test_type):
\* <<success, results_dict, error_message>>
analyze_excel_correlation(f, col1, col2, alpha, test_type) ==
    LET rd == read_excel_file(f)
    IN  IF ~rd[1] THEN <<FALSE, None, rd[3]>>
        ELSE LET v == validate_columns_for_correlation(rd[2], col1, col2)
             IN  IF ~v[1] THEN <<FALSE, None, v[2]>>
                 ELSE LET corr == compute_correlation_from_data(rd[2], col1, col2)
                          critical == compute_pearson_r_critical(corr.sample_size,
                                                                 alpha, test_type)
                          is_significant == FGt(FAbs(corr.r_value), critical.r_critical)
                      IN  <<TRUE, FinalResults(corr, critical, is_significant), "">>

\* itertools.combinations(cols, 2): the pairs <<cols[i], cols[j]>>, i < j, in order
RECURSIVE PairsFrom(_, _, _)
PairsFrom(cols, i, j) ==
    IF i >= Len(cols) THEN <<>>
    ELSE IF j > Len(cols) THEN PairsFrom(cols, i + 1, i + 2)
    ELSE <<(<<cols[i], cols[j]>>)>> \o PairsFrom(cols, i, j + 1)
Combinations2(cols) == PairsFrom(cols, 1, 2)

\* one iteration of the loop of get_all_correlation_pairs: the results after the pair
PairStep(frame, pair, alpha, test_type, results) ==
    LET v == validate_columns_for_correlation(frame, pair[1], pair[2])
    IN  IF ~v[1] THEN results
        ELSE LET corr == compute_correlation_from_data(frame, pair[1], pair[2])
                 critical == compute_pearson_r_critical(corr.sample_size, alpha, test_type)
                 is_significant == FGt(FAbs(corr.r_value), critical.r_critical)
             IN  Append(results, FinalResults(corr, critical, is_significant))

\* a loop that leaves (break) at the first pair that fails validation
RECURSIVE PairLoopBreak(_, _, _, _, _)
PairLoopBreak(frame, pairs, alpha, test_type, results) ==
    IF pairs = <<>> THEN results
    ELSE IF ~validate_columns_for_correlation(frame, Head(pairs)[1], Head(pairs)[2])[1]
         THEN results
    ELSE PairLoopBreak(frame, Tail(pairs), alpha, test_type,
                       PairStep(frame, Head(pairs), alpha, test_type, results))

get_all_correlation_pairs_break(frame, alpha, test_type) ==
    LET numeric_cols == get_numeric_columns(frame)
    IN  IF Len(numeric_cols) < 2 THEN <<>>
        ELSE PairLoopBreak(frame, Combinations2(numeric_cols), alpha, test_type, <<>>)

RECURSIVE PairLoop(_, _, _, _, _)
PairLoop(frame, pairs, alpha, test_type, results) ==
    IF pairs = <<>> THEN results
    ELSE PairLoop(frame, Tail(pairs), alpha, test_type,
                  PairStep(frame, Head(pairs), alpha, test_type, results))

\* get_all_correlation_pairs(df, alpha, test_type): the list of results.  The
\* except clause of the loop is not modelled: for a float alpha nothing in
\* the loop body raises once the pair is validated.
get_all_correlation_pairs(frame, alpha, test_type) ==
    LET numeric_cols == get_numeric_columns(frame)
    IN  IF Len(numeric_cols) < 2 THEN <<>>
        ELSE PairLoop(frame, Combinations2(numeric_cols), alpha, test_type, <<>>)

-----------------------------------------------------------------------------
(* The correlation requests on one Excel file *)

CellSet == {NaN} \cup {Num(v) : v \in CellValues}

\* the third column: all ones, a text column, or alternating with its first cell missing
ColumnC == {"ones", "text", "alternating"}
ColumnCData(shape) ==
    [i \in 1 .. NRows |->
        CASE shape = "ones"        -> Num(1)
          [] shape = "text"        -> Num(0)
          [] shape = "alternating" -> IF i = 1 THEN NaN ELSE Num(i % 2)]

\* the sheets tried: column A over every cell, column B without missing cells,
\* column C one of the three shapes; and a path with no file behind it
ExcelFiles ==
    { [found |-> TRUE,
       data  |-> [c \in Cols |-> CASE c = "A" -> a [] c = "B" -> b
                                   [] c = "C" -> ColumnCData(shape)],
       dtype |-> [c \in Cols |-> IF c = "C" /\ shape = "text" THEN "object"
                                 ELSE "number"]] :
        a \in [1 .. NRows -> CellSet],
        b \in [1 .. NRows -> CellSet \ {NaN}],
        shape \in ColumnC }
NoFile ==
    [found |-> FALSE, data |-> [c \in Cols |-> <<>>], dtype |-> [c \in Cols |-> "object"]]
EmptyFile ==
    [found |-> TRUE, data |-> [c \in Cols |-> <<>>], dtype |-> [c \in Cols |-> "object"]]

\* the settings tried: alpha = 0.05 two-tailed, alpha = 0.50 one-tailed (critical r
\* is 0) and two-tailed, and alpha = 1.50 one-tailed (no critical value exists)
CorrSettings ==
    {<<Num(500), TwoTailed>>, <<Num(5000), OneTailed>>, <<Num(5000), TwoTailed>>,
     <<Num(15000), OneTailed>>}
\* the requests for one pair of columns: every setting on columns of the sheet,
\* one request each with a first or second column the sheet lacks
AnalyzeRequests ==
    ({<<"A", "B">>, <<"A", "C">>, <<"C", "B">>} \X CorrSettings)
        \cup ({<<"A", "Z">>, <<"Z", "B">>} \X {<<Num(500), TwoTailed>>})

AnalyzeExcel(pair, alpha, test_type) ==
    LET out == analyze_excel_correlation(excel, pair[1], pair[2], alpha, test_type)
    IN  /\ corr_call = None
        /\ corr_call' = [op |-> "analyze_excel_correlation", col1 |-> pair[1],
                         col2 |-> pair[2], alpha |-> alpha, test_type |-> test_type]
        /\ corr_out'  = IF out[1] THEN [kind |-> "result", res |-> out[2]]
                        ELSE [kind |-> "error", msg |-> out[3]]
        /\ UNCHANGED <<excel, critVars, anovaVars, ttestVars, guiVars, wmVars>>

AllPairs(alpha, test_type) ==
    /\ corr_call = None
    /\ read_excel_file(excel)[1]
    /\ corr_call' = [op |-> "get_all_correlation_pairs", col1 |-> "", col2 |-> "",
                     alpha |-> alpha, test_type |-> test_type]
    /\ corr_out'  = [kind |-> "list",
                     res  |-> get_all_correlation_pairs(read_excel_file(excel)[2],
                                                        alpha, test_type)]
    /\ UNCHANGED <<excel, critVars, anovaVars, ttestVars, guiVars, wmVars>>

CorrNext ==
    \/ \E req \in AnalyzeRequests : AnalyzeExcel(req[1], req[2][1], req[2][2])
    \/ \E setting \in CorrSettings : AllPairs(setting[1], setting[2])

-----------------------------------------------------------------------------
(* Anova/ANOVA1.py and anova.py.  The two files compute manual_anova in the  *)
(* same way; ANOVA1.py is the one modelled line by line.  Observations are   *)
(* integers and every quantity is an exact rational, so SS_within is exactly *)
(* zero where the code's float may be a rounding residue.                    *)

MaxGroups    == 3             \* most groups in a group set
MaxGroupSize == 2             \* most observations in a group
Observations == {0, 1}        \* the values an observation may take

RECURSIVE GCD(_, _)
GCD(a, b) == IF b = 0 THEN a ELSE GCD(b, a % b)
AbsInt(a) == IF a < 0 THEN -a ELSE a

\* the rational n / d (d # 0) in lowest terms with a positive denominator
Rat(n, d) ==
    LET g == GCD(AbsInt(n), AbsInt(d))
        sgn == IF d < 0 THEN -1 ELSE 1
    IN  [k |-> "rat", n |-> sgn * (n \div g), d |-> sgn * (d \div g)]
IsRat(x) == x.k = "rat"

RAdd(a, b) == IF IsRat(a) /\ IsRat(b) THEN Rat(a.n * b.d + b.n * a.d, a.d * b.d) ELSE NaN
RSub(a, b) == IF IsRat(a) /\ IsRat(b) THEN Rat(a.n * b.d - b.n * a.d, a.d * b.d) ELSE NaN
RMul(a, b) == IF IsRat(a) /\ IsRat(b) THEN Rat(a.n * b.n, a.d * b.d) ELSE NaN
\* numpy float division: x / 0 is inf, -inf or nan (a warning, no exception)
RDiv(a, b) ==
    IF ~(IsRat(a) /\ IsRat(b)) THEN NaN
    ELSE IF b.n # 0 THEN Rat(a.n * b.d, a.d * b.n)
    ELSE IF a.n > 0 THEN PosInf
    ELSE IF a.n < 0 THEN NegInf
    ELSE NaN

RECURSIVE RSum(_)
RSum(s) == IF s = <<>> THEN Rat(0, 1) ELSE RAdd(Head(s), RSum(Tail(s)))

RECURSIVE Concatenate(_)
Concatenate(gs) == IF gs = <<>> THEN <<>> ELSE Head(gs) \o Concatenate(Tail(gs))

\* np.mean(x) of a non-empty sequence of integers
Mean(x) == Rat(SeqSum(x), Len(x))

\* np.sum((x - m) ** 2)
SumSqDev(x, m) ==
    RSum([i \in 1 .. Len(x) |-> RMul(RSub(Rat(x[i], 1), m), RSub(Rat(x[i], 1), m))])

\* sum(len(g) * (np.mean(g) - grand_mean) ** 2 for g in groups)
BetweenSum(gs, grand_mean) ==
    RSum([i \in 1 .. Len(gs) |->
            RMul(Rat(Len(gs[i]), 1),
                 RMul(RSub(Mean(gs[i]), grand_mean), RSub(Mean(gs[i]), grand_mean)))])

AnovaRecord(SS_between, SS_within, SS_total, df_between, df_within) ==
    LET MS_between == RDiv(SS_between, Rat(df_between, 1))
        MS_within  == RDiv(SS_within, Rat(df_within, 1))
    IN  [SS_between |-> SS_between, SS_within |-> SS_within, SS_total |-> SS_total,
         df_between |-> df_between, df_within |-> df_within,
         MS_between |-> MS_between, MS_within |-> MS_within,
         F_calculated |-> RDiv(MS_between, MS_within)]

\* a manual_anova that sums SS_within on its own, about the grand mean
manual_anova_summed(gs) ==
    LET all_data   == Concatenate(gs)
        grand_mean == Mean(all_data)
        SS_total   == SumSqDev(all_data, grand_mean)
        SS_between == BetweenSum(gs, grand_mean)
        SS_within  == RSum([i \in 1 .. Len(gs) |-> SumSqDev(gs[i], grand_mean)])
    IN  AnovaRecord(SS_between, SS_within, SS_total, Len(gs) - 1, Len(all_data) - Len(gs))

\* a manual_anova whose error degrees of freedom are N - 1
manual_anova_df(gs) ==
    LET all_data   == Concatenate(gs)
        grand_mean == Mean(all_data)
        SS_total   == SumSqDev(all_data, grand_mean)
        SS_between == BetweenSum(gs, grand_mean)
        SS_within  == RSub(SS_total, SS_between)
    IN  AnovaRecord(SS_between, SS_within, SS_total, Len(gs) - 1, Len(all_data) - 1)

\* manual_anova(groups)
manual_anova(gs) ==
    LET all_data   == Concatenate(gs)
        grand_mean == Mean(all_data)
        k          == Len(gs)
        N          == Len(all_data)
        SS_total   == SumSqDev(all_data, grand_mean)
        SS_between == BetweenSum(gs, grand_mean)
        SS_within  == RSub(SS_total, SS_between)
    IN  AnovaRecord(SS_between, SS_within, SS_total, k - 1, N - k)

\* f"{x:.4f}": x rounded to four decimals (half to even), in units of 1/10^4
Fmt4(x) ==
    IF ~IsRat(x) THEN x
    ELSE LET scaled == AbsInt(x.n) * 10^4
             q      == scaled \div x.d
             r2     == 2 * (scaled % x.d)
             up     == r2 > x.d \/ (r2 = x.d /\ q % 2 = 1)
             mag    == IF up THEN q + 1 ELSE q
         IN  Num(IF x.n < 0 THEN -mag ELSE mag)

\* the rows that create_anova_report writes into the ANOVA table of the document
ReportTable(a) ==
    [treatment |-> [SS |-> Fmt4(a.SS_between), df |-> a.df_between,
                    MS |-> Fmt4(a.MS_between)],
     error     |-> [SS |-> Fmt4(a.SS_within), df |-> a.df_within,
                    MS |-> Fmt4(a.MS_within)],
     total     |-> [SS |-> Fmt4(a.SS_total), df |-> a.df_between + a.df_within]]

\* the ANOVA table that main prints from the values create_anova_report returns
ConsoleTable(a) ==
    [treatment |-> [SS |-> Fmt4(a.SS_between), df |-> a.df_between,
                    MS |-> Fmt4(a.MS_between)],
     error     |-> [SS |-> Fmt4(a.SS_within), df |-> a.df_within,
                    MS |-> Fmt4(a.MS_within)],
     total     |-> [SS |-> Fmt4(RAdd(a.SS_between, a.SS_within)),
                    df |-> a.df_between + a.df_within]]

\* f"{x:.2f}": x rounded to two decimals (half to even), in units of 1/10^2
Fmt2(x) ==
    IF ~IsRat(x) THEN x
    ELSE LET scaled == AbsInt(x.n) * 10^2
             q      == scaled \div x.d
             r2     == 2 * (scaled % x.d)
             up     == r2 > x.d \/ (r2 = x.d /\ q % 2 = 1)
             mag    == IF up THEN q + 1 ELSE q
         IN  Num(IF x.n < 0 THEN -mag ELSE mag)

\* whether every value of the sequence x equals its first value
IsConstant(x) == \A i \in 1 .. Len(x) : x[i] = x[1]

\* the 0.95 quantile of the F distribution with (dfn, dfd) degrees of freedom, to
\* two decimals (units of 1/10^2), for 1 <= dfn <= 4 and 1 <= dfd <= 10
FCritTable(dfn, dfd) ==
    CASE dfn = 1 -> <<16145, 1851, 1013, 771, 661, 599, 559, 532, 512, 496>>[dfd]
      [] dfn = 2 -> <<19950, 1900, 955, 694, 579, 514, 474, 446, 426, 410>>[dfd]
      [] dfn = 3 -> <<21571, 1916, 928, 659, 541, 476, 435, 407, 386, 371>>[dfd]
      [] dfn = 4 -> <<22458, 1925, 912, 639, 519, 453, 412, 384, 363, 348>>[dfd]

\* a p-value, known by the side of 0.05 it lies on
PValue(below) == [k |-> "p", below |-> below]

\* p < 0.05 (false for nan)
PLt05(p) == p.k = "p" /\ p.below

\* the survival function of the F distribution at f: special.fdtrc(dfn, dfd, f)
FSurvival(dfn, dfd, f) ==
    IF IsNaN(f) THEN NaN
    ELSE IF IsInf(f) THEN PValue(f = PosInf)
    ELSE PValue(f.n * 10^2 > FCritTable(dfn, dfd) * f.d)

\* an f_oneway that divides the within-group sum of squares by N - 1
f_oneway_df(gs) ==
    LET alldata == Concatenate(gs)
        offset  == Mean(alldata)
        sstot   == SumSqDev(alldata, offset)
        ssbn    == BetweenSum(gs, offset)
        f       == RDiv(RDiv(ssbn, Rat(Len(gs) - 1, 1)),
                        RDiv(RSub(sstot, ssbn), Rat(Len(alldata) - 1, 1)))
    IN  [raised |-> FALSE, F_statistic |-> f,
         p_value |-> FSurvival(Len(gs) - 1, Len(alldata) - Len(gs), f)]

\* scipy.stats.f_oneway(*groups): a TypeError for fewer than two samples;
\* (nan, nan) when N = k or when all the values are one constant, (inf, 0) when
\* every group is constant but the groups differ; otherwise the sums of squares
\* from the centred totals, F = msb / msw and its survival probability
f_oneway(gs) ==
    IF Len(gs) < 2 THEN [raised |-> TRUE, F_statistic |-> None, p_value |-> None]
    ELSE
    LET alldata  == Concatenate(gs)
        bign     == Len(alldata)
        num      == Len(gs)
        offset   == Mean(alldata)
        centred(x) == [i \in 1 .. Len(x) |-> RSub(Rat(x[i], 1), offset)]
        sq(r)    == RMul(r, r)
        call     == centred(alldata)
        normsq   == RDiv(sq(RSum(call)), Rat(bign, 1))
        sstot    == RSub(RSum([i \in 1 .. bign |-> sq(call[i])]), normsq)
        ssbn     == RSub(RSum([i \in 1 .. num |->
                                  RDiv(sq(RSum(centred(gs[i]))), Rat(Len(gs[i]), 1))]),
                         normsq)
        sswn     == RSub(sstot, ssbn)
        dfbn     == num - 1
        dfwn     == bign - num
        msb      == RDiv(ssbn, Rat(dfbn, 1))
        msw      == RDiv(sswn, Rat(dfwn, 1))
        f        == RDiv(msb, msw)
    IN  IF dfwn = 0 \/ IsConstant(alldata)
        THEN [raised |-> FALSE, F_statistic |-> NaN, p_value |-> NaN]
        ELSE IF \A i \in 1 .. num : IsConstant(gs[i])
        THEN [raised |-> FALSE, F_statistic |-> PosInf, p_value |-> PValue(TRUE)]
        ELSE [raised |-> FALSE, F_statistic |-> f,
              p_value |-> FSurvival(dfbn, dfwn, f)]

\* age_labels, in the order the scripts list them
age_labels ==
    <<"Below 25", "25-29", "30-34", "35-39", "40-44", "45-49", "50-54", "55 above">>

\* the age labels in the order np.unique returns them (sorted as strings: digits
\* come before letters)
SortedLabels ==
    <<"25-29", "30-34", "35-39", "40-44", "45-49", "50-54", "55 above", "Below 25">>

\* np.array([[age_labels[i]] * len(g) for i, g in enumerate(all_groups)]).flatten():
\* one label per observation when the groups have one common size; rows of
\* different lengths do not make a rectangular array (a ValueError, or an array
\* of k lists that pairwise_tukeyhsd rejects for its length)
LabelVector(gs) ==
    IF \E i, j \in 1 .. Len(gs) : Len(gs[i]) # Len(gs[j])
    THEN [ragged |-> TRUE, labels |-> <<>>]
    ELSE [ragged |-> FALSE,
          labels |-> Concatenate([i \in 1 .. Len(gs) |->
                                     [j \in 1 .. Len(gs[i]) |-> age_labels[i]]])]

\* the values of the observations that carry the label l
ValuesOf(values, labels, l) ==
    SelectSeq([i \in 1 .. Len(values) |-> [v |-> values[i], l |-> labels[i]]],
              LAMBDA e : e.l = l)

\* the pairs <<i, j>>, i < j <= n, row by row: np.triu_indices(n, 1)
RECURSIVE TriuFrom(_, _, _)
TriuFrom(i, j, n) ==
    IF i >= n THEN <<>>
    ELSE IF j > n THEN TriuFrom(i + 1, i + 2, n)
    ELSE <<(<<i, j>>)>> \o TriuFrom(i, j + 1, n)
TriuIndices(n) == TriuFrom(1, 2, n)

\* statsmodels' pairwise_tukeyhsd(values, labels).summary().data without its
\* header row: the groups are np.unique(labels), sorted; one row for each pair
\* of them, with the difference of the second group's mean from the first's
pairwise_tukeyhsd(values, labels) ==
    LET present == {labels[i] : i \in 1 .. Len(labels)}
        groupsunique == SelectSeq(SortedLabels, LAMBDA l : l \in present)
        pairs == TriuIndices(Len(groupsunique))
        mean(l) == LET vs == ValuesOf(values, labels, l)
                   IN  Rat(SeqSum([i \in 1 .. Len(vs) |-> vs[i].v]), Len(vs))
    IN  [p \in 1 .. Len(pairs) |->
            [group1 |-> groupsunique[pairs[p][1]],
             group2 |-> groupsunique[pairs[p][2]],
             meandiff |-> RSub(mean(groupsunique[pairs[p][2]]),
                               mean(groupsunique[pairs[p][1]]))]]

\* the post-hoc block of create_anova_report and of main
PostHoc(gs) ==
    LET lv == LabelVector(gs)
    IN  IF lv.ragged THEN [raised |-> TRUE, table |-> None]
        ELSE [raised |-> FALSE,
              table |-> pairwise_tukeyhsd(Concatenate(gs), lv.labels)]

\* a create_anova_report that adds the post-hoc table whatever the p-value
create_anova_report_always(gs) ==
    LET a  == manual_anova(gs)
        fo == f_oneway(gs)
        ph == PostHoc(gs)
    IN  [kind |-> "create_anova_report", anova |-> a, document |-> ReportTable(a),
         console |-> None, F_statistic |-> fo.F_statistic, p_value |-> fo.p_value,
         table_F |-> Fmt2(a.F_calculated), interpretation_F |-> Fmt4(fo.F_statistic),
         posthoc_table |-> ph.table, console_posthoc |-> None,
         labels |-> LabelVector(gs)]

\* create_anova_report(title, subtitle, filename, all_groups, age_labels): what
\* it returns and the tables of the document it saves; "raised" when f_oneway or
\* the post-hoc raises, which is before the document is saved.  labels is the
\* local of line 128, None when the post-hoc block is not entered
create_anova_report(gs) ==
    LET a  == manual_anova(gs)
        fo == f_oneway(gs)
        ph == PostHoc(gs)
        raised == [kind |-> "raised", anova |-> a, document |-> None,
                   console |-> None, F_statistic |-> None, p_value |-> None,
                   table_F |-> None, interpretation_F |-> None,
                   posthoc_table |-> None, console_posthoc |-> None,
                   labels |-> None]
    IN  IF fo.raised THEN raised
        ELSE IF PLt05(fo.p_value) /\ ph.raised
        THEN [raised EXCEPT !.labels = LabelVector(gs)]
        ELSE [kind |-> "create_anova_report", anova |-> a,
              document |-> ReportTable(a), console |-> None,
              F_statistic |-> fo.F_statistic, p_value |-> fo.p_value,
              table_F |-> Fmt2(a.F_calculated),
              interpretation_F |-> Fmt4(fo.F_statistic),
              posthoc_table |-> IF PLt05(fo.p_value) THEN ph.table ELSE None,
              console_posthoc |-> None,
              labels |-> IF PLt05(fo.p_value) THEN LabelVector(gs) ELSE None]

GroupsOfSize(n) == [1 .. n -> Observations]
AllGroups  == UNION {GroupsOfSize(n) : n \in 1 .. MaxGroupSize}
GroupSets  == UNION {[1 .. k -> AllGroups] : k \in 1 .. MaxGroups}

\* a direct call of manual_anova
ManualAnova ==
    /\ anova_out = None
    /\ anova_out' = [kind |-> "manual_anova", anova |-> manual_anova(groups),
                     document |-> None, console |-> None,
                     F_statistic |-> None, p_value |-> None,
                     table_F |-> None, interpretation_F |-> None,
                     posthoc_table |-> None, console_posthoc |-> None,
                     labels |-> None]
    /\ UNCHANGED <<groups, prompt_msg, critVars, corrVars, ttestVars, guiVars, wmVars>>

\* a direct call of create_anova_report
CreateAnovaReport ==
    /\ anova_out = None
    /\ anova_out' = create_anova_report(groups)
    /\ UNCHANGED <<groups, prompt_msg, critVars, corrVars, ttestVars, guiVars, wmVars>>

\* get_user_input: what the console loop accepts, one group for each age label
\* (eight in the source, MaxGroups here), each of at least two values
get_user_input(all_groups) ==
    /\ Len(all_groups) = MaxGroups
    /\ \A i \in 1 .. Len(all_groups) : Len(all_groups[i]) >= 2

\* the lines typed at a group prompt: up to MaxGroupSize words, each a number or
\* a word that float() rejects
LineWords  == {Num(v) : v \in Observations} \cup {Bad}
InputLines == UNION {[1 .. n -> LineWords] : n \in 0 .. MaxGroupSize}

\* a prompt that takes any line of numbers, a single one included
EnterGroupAny(user_input) ==
    /\ anova_out = None
    /\ Len(groups) < MaxGroups
    /\ IF user_input = <<>> \/ \E i \in 1 .. Len(user_input) : user_input[i] = Bad
       THEN prompt_msg' = "Invalid input. Please enter numbers only"
            /\ UNCHANGED groups
       ELSE /\ groups' = Append(groups, [i \in 1 .. Len(user_input) |-> user_input[i].v])
            /\ prompt_msg' = "Added"
    /\ UNCHANGED <<anova_out, critVars, corrVars, ttestVars, guiVars, wmVars>>

\* one pass of the while loop of get_user_input for the group being asked for:
\* the line is refused with a message, or its values become the next group
EnterGroup(user_input) ==
    /\ anova_out = None
    /\ Len(groups) < MaxGroups
    /\ IF user_input = <<>>
       THEN prompt_msg' = "Please enter some values" /\ UNCHANGED groups
       ELSE IF \E i \in 1 .. Len(user_input) : user_input[i] = Bad
       THEN prompt_msg' = "Invalid input. Please enter numbers only"
            /\ UNCHANGED groups
       ELSE IF Len(user_input) < 2
       THEN prompt_msg' = "Please enter at least 2 values" /\ UNCHANGED groups
       ELSE /\ groups' = Append(groups, [i \in 1 .. Len(user_input) |-> user_input[i].v])
            /\ prompt_msg' = "Added"
    /\ UNCHANGED <<anova_out, critVars, corrVars, ttestVars, guiVars, wmVars>>

\* one round of main: the input, the report, then the console tables; when
\* create_anova_report raises, main ends there and prints nothing
Main ==
    /\ anova_out = None
    /\ get_user_input(groups)
    /\ LET r == create_anova_report(groups)
       IN  anova_out' =
             IF r.kind = "raised" THEN r
             ELSE [r EXCEPT !.kind = "main",
                            !.console = ConsoleTable(r.anova),
                            !.console_posthoc =
                                IF PLt05(r.p_value) THEN PostHoc(groups).table
                                ELSE None]
    /\ UNCHANGED <<groups, prompt_msg, critVars, corrVars, ttestVars, guiVars, wmVars>>

AnovaNext == ManualAnova \/ CreateAnovaReport \/ Main

\* the script as it runs: the groups are typed in, then main goes on
InputNext == (\E user_input \in InputLines : EnterGroup(user_input)) \/ Main

\* group sets of at least two groups of at least two scores each; the scores of
\* a group start at a level, 0 or 4, and rise by one at most
Levels == {0, 4}
Scores == {l + o : l \in Levels, o \in Observations}
ScoredGroups ==
    {g \in UNION {[1 .. n -> Scores] : n \in 2 .. MaxGroupSize} :
        /\ g[1] \in Levels
        /\ g[Len(g)] - g[1] \in Observations
        /\ \A i \in 1 .. Len(g) - 1 : g[i] <= g[i + 1]}
ScoredGroupSets == UNION {[1 .. k -> ScoredGroups] : k \in 2 .. MaxGroups}

PostHocNext == CreateAnovaReport \/ Main

\* groups of two to MaxGroupSize + 1 observations, all at one level, so that
\* group sets with groups of different sizes are among the significant ones
LevelGroups ==
    {g \in UNION {[1 .. n -> Levels] : n \in 2 .. MaxGroupSize + 1} : IsConstant(g)}
SizedGroupSets == UNION {[1 .. k -> ScoredGroups \cup LevelGroups] : k \in 2 .. MaxGroups}

-----------------------------------------------------------------------------
(* t-test/t-test.py *)

MaxClock == 1                 \* the clock runs from 0 to MaxClock

\* a word of a scores box without a digit in it
Word == [k |-> "word", v |-> 0]

\* the text that lists the scores of g
TextOf(g) == [i \in 1 .. Len(g) |-> Num(g[i])]

\* the samples tried: at most the last score lies above the level
Samples == {g \in ScoredGroups : g[Len(g) - 1] = g[1]}

\* the texts tried in a scores box: nothing, a word, one number, and the lists
\* of two or more scores
ScoreTexts == {<<>>, <<Word>>, <<Num(4)>>} \cup {TextOf(g) : g \in Samples}

\* parse_input(text): the numbers found in the text, in order
parse_input(text) ==
    LET numbers == SelectSeq(text, LAMBDA w : IsNum(w))
    IN  [i \in 1 .. Len(numbers) |-> numbers[i].v]

\* sum((x - mean) ** 2 for x in data) / (n - 1)
Variance(data) == RDiv(SumSqDev(data, Mean(data)), Rat(Len(data) - 1, 1))

\* the t statistic: sign * sqrt(sq), held by its sign and its square
TStat(sign, sq) == [k |-> "t", sign |-> sign, sq |-> sq]
TNeg(t) == IF t.k = "t" THEN TStat(-t.sign, t.sq) ELSE t
TAbs(t) == IF t.k = "t" THEN TStat(AbsInt(t.sign), t.sq) ELSE t

\* the two-sided p-value of t under the t distribution with df degrees of
\* freedom, 2 * sf(|t|, df): held by the |t| and the df it is computed from
TwoSidedP(t, df) == [k |-> "p", abs_t |-> TAbs(t), df |-> df]

\* p <= 0.05: |t| is at least the 0.975 quantile for df, read from the table of
\* t.ppf and interpolated between whole degrees of freedom
PLe05(p) ==
    LET lo    == p.df.n \div p.df.d
        part  == p.df.n % p.df.d
        critd == TTable(MassScale - 500, lo) * p.df.d
                    - (TTable(MassScale - 500, lo) - TTable(MassScale - 500, lo + 1)) * part
        abs_t == ISqrt((p.abs_t.sq.n * TScale * TScale) \div p.abs_t.sq.d)
    IN  abs_t * p.df.d >= critd

\* the values of lines 188-199 for a t statistic of the given sign
WelchRecord(group1_data, group2_data, sign) ==
    LET mean1 == Mean(group1_data)
        mean2 == Mean(group2_data)
        n1    == Len(group1_data)
        n2    == Len(group2_data)
        vn1   == RDiv(Variance(group1_data), Rat(n1, 1))
        vn2   == RDiv(Variance(group2_data), Rat(n2, 1))
        d     == RSub(mean1, mean2)
        t     == TStat(sign, RDiv(RMul(d, d), RAdd(vn1, vn2)))
        df    == RDiv(RMul(RAdd(vn1, vn2), RAdd(vn1, vn2)),
                      RAdd(RDiv(RMul(vn1, vn1), Rat(n1 - 1, 1)),
                           RDiv(RMul(vn2, vn2), Rat(n2 - 1, 1))))
    IN  [raised |-> ~IsRat(df), mean1 |-> mean1, mean2 |-> mean2, n1 |-> n1,
         n2 |-> n2, t_statistic |-> t, df |-> df, p_value |-> TwoSidedP(t, df)]

\* a Welch test that reports the size of t without its sign
welch_unsigned(group1_data, group2_data) ==
    WelchRecord(group1_data, group2_data,
                IF Mean(group1_data) = Mean(group2_data) THEN 0 ELSE 1)

\* lines 188-199 of compute_ttest: the means, stats.ttest_ind(group1_data,
\* group2_data, equal_var=False), whose t has the sign of mean1 - mean2, and the
\* Welch-Satterthwaite df; two samples without variance make the df a division
\* of zero by zero, which raises
welch(group1_data, group2_data) ==
    LET d == RSub(Mean(group1_data), Mean(group2_data))
    IN  WelchRecord(group1_data, group2_data,
                    IF d.n > 0 THEN 1 ELSE IF d.n < 0 THEN -1 ELSE 0)

Significant    == "There is a significant difference between the two groups."
NotSignificant == "There is no significant difference between the two groups."

\* a conclusion drawn at alpha = 0.01 from the size of t alone
conclusion_strict(p_value) ==
    IF p_value.abs_t.sq.n >= 100 * p_value.abs_t.sq.d THEN Significant
    ELSE NotSignificant

\* lines 202-206 of compute_ttest: the conclusion at alpha = 0.05
conclusion_of(p_value) == IF PLe05(p_value) THEN Significant ELSE NotSignificant

\* the user replaces the text of one of the two scores boxes (any dialog has
\* been closed).  A behaviour is followed up to the first document written.
EditScores(box, text) ==
    /\ ttest_doc = None
    /\ IF box = 1
       THEN text # group1_text /\ group1_text' = text /\ UNCHANGED group2_text
       ELSE text # group2_text /\ group2_text' = text /\ UNCHANGED group1_text
    /\ ttest_dialog' = ""
    /\ UNCHANGED <<ttest_results, results_text, save_button, status_label, ttest_doc,
                   now, report_entries, critVars, corrVars, anovaVars, guiVars, wmVars>>

\* the user replaces the text of the report title or of the byline entry
EditReportEntry(entry, text) ==
    /\ ttest_doc = None
    /\ text # report_entries[entry]
    /\ report_entries' = [report_entries EXCEPT ![entry] = text]
    /\ ttest_dialog' = ""
    /\ UNCHANGED <<group1_text, group2_text, ttest_results, results_text, save_button,
                   status_label, ttest_doc, now, critVars, corrVars, anovaVars,
                   guiVars, wmVars>>

\* the clock moves on
Tick ==
    /\ ttest_doc = None
    /\ now < MaxClock
    /\ now' = now + 1
    /\ UNCHANGED <<group1_text, group2_text, ttest_results, results_text, save_button,
                   status_label, ttest_dialog, ttest_doc, report_entries, critVars,
                   corrVars, anovaVars, guiVars, wmVars>>

\* a failure that also forgets the result stored before
compute_failed_reset(message) ==
    /\ ttest_dialog' = message
    /\ ttest_results' = None /\ results_text' = None /\ save_button' = "disabled"
    /\ UNCHANGED status_label

\* messagebox.showerror(...) and the return that follows it
compute_failed(message) ==
    /\ ttest_dialog' = message
    /\ UNCHANGED <<ttest_results, results_text, save_button, status_label>>

\* compute_ttest
ComputeTTest ==
    LET group1_data == parse_input(group1_text)
        group2_data == parse_input(group2_text)
        w == welch(group1_data, group2_data)
        failed(message) == compute_failed(message)
    IN  /\ ttest_doc = None
        /\ IF group1_text = <<>> \/ group2_text = <<>>
           THEN failed("Input Error: Please enter data for both groups.")
           ELSE IF Len(group1_data) = 0 \/ Len(group2_data) = 0
           THEN failed("Input Error: No valid numeric values found. Please enter numeric data.")
           ELSE IF Len(group1_data) < 2 \/ Len(group2_data) < 2
           THEN failed("Input Error: Each group must have at least 2 values.")
           ELSE IF w.raised
           THEN failed("Error: An error occurred: float division by zero")
           ELSE /\ ttest_results' = [group1_data |-> group1_data,
                               group2_data |-> group2_data,
                               mean1 |-> w.mean1, mean2 |-> w.mean2,
                               n1 |-> w.n1, n2 |-> w.n2,
                               t_statistic |-> w.t_statistic, df |-> w.df,
                               p_value |-> w.p_value,
                               conclusion |-> conclusion_of(w.p_value),
                               timestamp |-> now]
                /\ results_text' = [mean1 |-> Fmt4(w.mean1), n1 |-> w.n1,
                                    mean2 |-> Fmt4(w.mean2), n2 |-> w.n2,
                                    df |-> Fmt2(w.df),
                                    conclusion |-> conclusion_of(w.p_value)]
                /\ status_label' = "Computation successful"
                /\ save_button' = "normal"
                /\ ttest_dialog' = ""
        /\ UNCHANGED <<group1_text, group2_text, ttest_doc, now, report_entries,
                       critVars, corrVars, anovaVars, guiVars, wmVars>>

\* a clear_fields that leaves self.results as it was
clear_fields_keeps_results ==
    /\ ttest_doc = None
    /\ group1_text' = <<>> /\ group2_text' = <<>>
    /\ results_text' = None
    /\ status_label' = ""
    /\ save_button' = "disabled"
    /\ report_entries' = [title |-> "", byline |-> ""]
    /\ ttest_dialog' = ""
    /\ UNCHANGED <<ttest_results, ttest_doc, now, critVars, corrVars, anovaVars,
                   guiVars, wmVars>>

\* clear_fields
ClearFields ==
    /\ ttest_doc = None
    /\ group1_text' = <<>> /\ group2_text' = <<>>
    /\ results_text' = None
    /\ status_label' = ""
    /\ ttest_results' = None
    /\ save_button' = "disabled"
    /\ report_entries' = [title |-> "", byline |-> ""]
    /\ ttest_dialog' = ""
    /\ UNCHANGED <<ttest_doc, now, critVars, corrVars, anovaVars, guiVars, wmVars>>

\* save_to_docx, with the path chosen in the file dialog ("" when cancelled)
SaveToDocx(file_path) ==
    /\ ttest_doc = None
    /\ IF ttest_results = None
       THEN /\ ttest_dialog' = "No Results: Please compute the t-test first."
            /\ UNCHANGED <<ttest_doc, status_label>>
       ELSE IF file_path = ""
       THEN /\ ttest_dialog' = ""
            /\ UNCHANGED <<ttest_doc, status_label>>
       ELSE /\ ttest_doc' = [title |-> IF report_entries.title = ""
                                       THEN "Independent Samples t-test Results"
                                       ELSE report_entries.title,
                             byline |-> report_entries.byline,
                             mean1 |-> Fmt4(ttest_results.mean1), n1 |-> ttest_results.n1,
                             mean2 |-> Fmt4(ttest_results.mean2), n2 |-> ttest_results.n2,
                             df |-> Fmt2(ttest_results.df),
                             conclusion |-> ttest_results.conclusion,
                             generated |-> ttest_results.timestamp]
            /\ status_label' = "Results saved"
            /\ ttest_dialog' = "Success: Results saved successfully"
    /\ UNCHANGED <<group1_text, group2_text, ttest_results, results_text, save_button,
                   now, report_entries, critVars, corrVars, anovaVars, guiVars,
                   wmVars>>

TTestNext ==
    \/ \E box \in {1, 2}, text \in ScoreTexts : EditScores(box, text)
    \/ Tick
    \/ ComputeTTest
    \/ ClearFields
    \/ \E file_path \in {"", "results.docx"} : SaveToDocx(file_path)

\* the texts tried when the report entries are edited as well: nothing, a word,
\* one number, and the pairs of scores at the lower level
WindowTexts ==
    {<<>>, <<Word>>, <<Num(4)>>} \cup
        {TextOf(g) : g \in {h \in Samples : Len(h) = 2 /\ h[1] = 0}}

\* every operation of the window, the edits of the report entries included
WindowNext ==
    \/ \E box \in {1, 2}, text \in WindowTexts : EditScores(box, text)
    \/ \E entry \in {"title", "byline"}, text \in {"", "Report"} :
           EditReportEntry(entry, text)
    \/ Tick
    \/ ComputeTTest
    \/ ClearFields
    \/ \E file_path \in {"", "results.docx"} : SaveToDocx(file_path)

-----------------------------------------------------------------------------
(* pearson-r_crit_app_gui/main.py and gui_components.py: the window.  The   *)
(* event loop runs one handler at a time; the worker threads run beside it, *)
(* so a worker's steps fall between any two steps of a handler.  A message  *)
(* box is recorded and closed at once; the file dialog of save_results      *)
(* stays open while the event loop runs the callbacks handed to after().    *)
(* The sample-size entry starts at the largest n tried, not at 30.  A       *)
(* behaviour is followed up to the first document written, and starts at    *)
(* most MaxThreads workers.                                                 *)

MaxThreads == 2               \* most worker threads started in a behaviour

\* the texts tried in each entry, and the choices of each option menu
EntryTexts(field) ==
    CASE field = "sample_size_entry"   -> {Num(MaxN * NScale), Num(2 * NScale), Bad}
      [] field = "alpha_entry"         -> {Num(500)}
      [] field = "test_type_var"       -> {TwoTailed}
      [] field = "excel_alpha_entry"   -> {Num(500), Num(15000), Bad}
      [] field = "excel_test_type_var" -> {TwoTailed}
EntryFields ==
    {"sample_size_entry", "alpha_entry", "test_type_var", "excel_alpha_entry",
     "excel_test_type_var"}

\* the sheet the user browses to: A alternates, B is 0 then 1, C is constant
GuiSheet ==
    [found |-> TRUE,
     data  |-> [c \in Cols |->
                   [i \in 1 .. NRows |-> CASE c = "A" -> Num(i % 2)
                                           [] c = "B" -> Num(IF i = 1 THEN 0 ELSE 1)
                                           [] c = "C" -> Num(1)]],
     dtype |-> [c \in Cols |-> "number"]]

InfoDialog(title) == [kind |-> "info", title |-> title, msg |-> ""]

\* threading.Thread(target=...): a worker about to run, with the arguments bound
Thread(id, target, col1, col2) ==
    [id |-> id, target |-> target, pc |-> "start", col1 |-> col1, col2 |-> col2,
     results |-> None]

\* self.after(0, lambda: ...): a callback whose lambda reads ordinary locals
Callback(op, arg) == [op |-> op, arg |-> arg]

\* self.after(0, lambda: messagebox.showerror(..., f"...{str(e)}")) inside
\* "except Exception as e": the lambda reads e of worker id when it is called
ExceptCallback(id, dialog) == [op |-> "showerror_e", arg |-> dialog, e |-> id]

\* the end of an except clause deletes its target: the lambdas that read e of
\* worker id find it unbound from then on
DelE(queue, id) ==
    [k \in 1 .. Len(queue) |->
        IF queue[k].op = "showerror_e" /\ queue[k].e = id
        THEN [queue[k] EXCEPT !.e = 0] ELSE queue[k]]

RemoveAt(seq, i) == [j \in 1 .. Len(seq) - 1 |-> IF j < i THEN seq[j] ELSE seq[j + 1]]

\* the event loop is free to run a handler
MainIdle == saver.pc = "idle" /\ saved_doc = None

SaverIdle == [pc |-> "idle", found |-> None, is_excel |-> FALSE, doc |-> <<>>]

\* the user types in an entry or picks from an option menu
EditEntry(field, text) ==
    /\ MainIdle
    /\ text # entries[field]
    /\ entries' = [entries EXCEPT ![field] = text]
    /\ gui_dialog' = None
    /\ UNCHANGED <<excel_frame, current_results, calculate_button, analyze_button,
                   threads, after_queue, results_display, excel_results_display,
                   saver, saved_doc, threads_started, results_origin,
                   critVars, corrVars, anovaVars, ttestVars, wmVars>>

\* a sheet with one numeric column
TextSheet ==
    [found |-> TRUE,
     data  |-> [c \in Cols |-> [i \in 1 .. NRows |-> Num(i % 2)]],
     dtype |-> [c \in Cols |-> IF c = "A" THEN "number" ELSE "object"]]

\* ExcelAnalysisFrame.browse_file and load_file, on the file the user picks
LoadFile(f) ==
    LET rd == read_excel_file(f)
        numeric_columns == get_numeric_columns(rd[2])
    IN  /\ MainIdle
        /\ IF ~rd[1]
           THEN /\ gui_dialog' = ErrorDialog("File Error", rd[3])
                /\ UNCHANGED <<excel_frame, analyze_button>>
           ELSE IF Len(numeric_columns) < 2
           THEN /\ gui_dialog' = ErrorDialog("Invalid File",
                                     "The Excel file must contain at least 2 numeric columns")
                /\ UNCHANGED <<excel_frame, analyze_button>>
           ELSE /\ excel_frame' = [current_filepath |-> TRUE,
                                   col1 |-> numeric_columns[1],
                                   col2 |-> numeric_columns[2]]
                /\ analyze_button' = "normal"
                /\ gui_dialog' = None
        /\ UNCHANGED <<entries, current_results, calculate_button, threads, after_queue,
                       results_display, excel_results_display, saver, saved_doc,
                       threads_started, results_origin,
                       critVars, corrVars, anovaVars, ttestVars, wmVars>>

\* the file behind the loaded path is removed from the disk
DeleteFile ==
    /\ saved_doc = None
    /\ excel.found
    /\ excel' = NoFile
    /\ UNCHANGED <<corr_call, corr_out, guiVars, critVars, anovaVars, ttestVars, wmVars>>

\* the user picks a column in a column menu (the second one, in GuiNext)
SelectColumn(menu, col) ==
    /\ MainIdle
    /\ excel_frame.current_filepath
    /\ col # excel_frame[menu]
    /\ excel_frame' = [excel_frame EXCEPT ![menu] = col]
    /\ gui_dialog' = None
    /\ UNCHANGED <<entries, current_results, calculate_button, analyze_button,
                   threads, after_queue, results_display, excel_results_display,
                   saver, saved_doc, threads_started, results_origin,
                   critVars, corrVars, anovaVars, ttestVars, wmVars>>

\* on_calculate_click
OnCalculateClick ==
    LET ok == validate_inputs(entries.sample_size_entry, entries.alpha_entry)
    IN  /\ MainIdle
        /\ calculate_button = "normal"
        /\ threads_started < MaxThreads
        /\ IF ~ok[1]
           THEN /\ gui_dialog' = ok[2]
                /\ UNCHANGED <<calculate_button, threads, threads_started>>
           ELSE /\ calculate_button' = "disabled"
                /\ threads' = Append(threads, Thread(threads_started + 1, "calculate_in_thread", "", ""))
                /\ threads_started' = threads_started + 1
                /\ gui_dialog' = None
        /\ UNCHANGED <<entries, excel_frame, current_results, analyze_button,
                       after_queue, results_display, excel_results_display, saver,
                       saved_doc, results_origin,
                       critVars, corrVars, anovaVars, ttestVars, wmVars>>

\* analyze_file without its comparison of the two columns
analyze_file_unchecked ==
    /\ MainIdle
    /\ analyze_button = "normal"
    /\ excel_frame.current_filepath
    /\ threads_started < MaxThreads
    /\ analyze_button' = "disabled"
    /\ threads' = Append(threads, Thread(threads_started + 1, "run_analysis",
                                         excel_frame.col1, excel_frame.col2))
    /\ threads_started' = threads_started + 1
    /\ gui_dialog' = None
    /\ UNCHANGED <<entries, excel_frame, current_results, calculate_button,
                   after_queue, results_display, excel_results_display, saver,
                   saved_doc, results_origin, critVars, corrVars, anovaVars,
                   ttestVars, wmVars>>

\* ExcelAnalysisFrame.analyze_file and the analyze_excel_file it calls
AnalyzeFile ==
    /\ MainIdle
    /\ analyze_button = "normal"
    /\ excel_frame.current_filepath
    /\ threads_started < MaxThreads
    /\ IF excel_frame.col1 = excel_frame.col2
       THEN /\ gui_dialog' = ErrorDialog("Invalid Selection",
                                 "Please select two different columns")
            /\ UNCHANGED <<analyze_button, threads, threads_started>>
       ELSE /\ analyze_button' = "disabled"
            /\ threads' = Append(threads, Thread(threads_started + 1, "run_analysis",
                                                 excel_frame.col1, excel_frame.col2))
            /\ threads_started' = threads_started + 1
            /\ gui_dialog' = None
    /\ UNCHANGED <<entries, excel_frame, current_results, calculate_button,
                   after_queue, results_display, excel_results_display, saver,
                   saved_doc, results_origin,
                   critVars, corrVars, anovaVars, ttestVars, wmVars>>

\* what a worker does up to its assignment to self.current_results:
\* <<outcome, results, what it hands to after()>>.  The outcome is "ok",
\* "returned" (a return inside the try, its callbacks in the third place) or
\* "raised" (an exception, the dialog of its except clause in the third place)
calculate_in_thread(e) ==
    IF e.sample_size_entry = Bad \/ e.alpha_entry = Bad
    THEN <<"raised", None,
           ErrorDialog("Calculation Error", "An error occurred during calculation")>>
    ELSE <<"ok",
           compute_pearson_r_critical(IntOfText(e.sample_size_entry), e.alpha_entry,
                                      e.test_type_var),
           <<>>>>

run_analysis(e, f, col1, col2) ==
    LET enable == Callback("analyze_button", None)
        va     == validate_alpha(e.excel_alpha_entry)
        out    == analyze_excel_correlation(f, col1, col2, e.excel_alpha_entry,
                                            e.excel_test_type_var)
    IN  IF e.excel_alpha_entry = Bad
        THEN <<"raised", None, ErrorDialog("Analysis Error", "An error occurred")>>
        ELSE IF ~va[1]
        THEN <<"returned", None,
               <<Callback("showerror", ErrorDialog("Input Error", va[2])), enable>>>>
        ELSE IF ~out[1]
        THEN <<"returned", None,
               <<Callback("showerror", ErrorDialog("Analysis Error", out[3])), enable>>>>
        ELSE <<"ok", out[2], <<>>>>

\* a worker that assigns self.current_results before it looks at the outcome
thread_run_stores_early(i) ==
    LET th  == threads[i]
        out == IF th.target = "calculate_in_thread" THEN calculate_in_thread(entries)
               ELSE run_analysis(entries, excel, th.col1, th.col2)
    IN  /\ saved_doc = None
        /\ th.pc = "start"
        /\ current_results' = out[2]
        /\ CASE out[1] = "ok" ->
                   /\ threads' = [threads EXCEPT ![i] = [th EXCEPT !.pc = "store",
                                                                   !.results = out[2]]]
                   /\ UNCHANGED after_queue
             [] out[1] = "returned" ->
                   /\ threads' = RemoveAt(threads, i)
                   /\ after_queue' = after_queue \o out[3]
             [] out[1] = "raised" ->
                   /\ threads' = [threads EXCEPT ![i] = [th EXCEPT !.pc = "except"]]
                   /\ after_queue' = Append(after_queue, ExceptCallback(th.id, out[3]))
        /\ UNCHANGED <<entries, excel_frame, calculate_button, analyze_button,
                       results_display, excel_results_display, gui_dialog, saver,
                       saved_doc, threads_started, results_origin, critVars, corrVars,
                       anovaVars, ttestVars, wmVars>>

\* a worker reads the entries and computes.  On a return inside the try it
\* hands the error dialog and the re-enabling of its button to the event loop
\* and ends; on an exception it hands over the dialog of the except clause
ThreadRun(i) ==
    LET th  == threads[i]
        out == IF th.target = "calculate_in_thread" THEN calculate_in_thread(entries)
               ELSE run_analysis(entries, excel, th.col1, th.col2)
    IN  /\ saved_doc = None
        /\ th.pc = "start"
        /\ CASE out[1] = "ok" ->
                   /\ threads' = [threads EXCEPT ![i] = [th EXCEPT !.pc = "store",
                                                                   !.results = out[2]]]
                   /\ UNCHANGED after_queue
             [] out[1] = "returned" ->
                   /\ threads' = RemoveAt(threads, i)
                   /\ after_queue' = after_queue \o out[3]
             [] out[1] = "raised" ->
                   /\ threads' = [threads EXCEPT ![i] = [th EXCEPT !.pc = "except"]]
                   /\ after_queue' = Append(after_queue, ExceptCallback(th.id, out[3]))
        /\ UNCHANGED <<entries, excel_frame, current_results, calculate_button,
                       analyze_button, results_display, excel_results_display,
                       gui_dialog, saver, saved_doc, threads_started, results_origin,
                       critVars, corrVars, anovaVars, ttestVars, wmVars>>

\* the except clause ends, which deletes e, and the finally clause hands the
\* re-enabling of the button to the event loop
ThreadFinally(i) ==
    LET th == threads[i]
    IN  /\ saved_doc = None
        /\ th.pc = "except"
        /\ after_queue' =
               Append(DelE(after_queue, th.id),
                      Callback(IF th.target = "calculate_in_thread"
                               THEN "calculate_button" ELSE "analyze_button", None))
        /\ threads' = RemoveAt(threads, i)
        /\ UNCHANGED <<entries, excel_frame, current_results, calculate_button,
                       analyze_button, results_display, excel_results_display,
                       gui_dialog, saver, saved_doc, threads_started, results_origin,
                       critVars, corrVars, anovaVars, ttestVars, wmVars>>

\* self.current_results = results, then the two calls of after() and the end
ThreadStore(i) ==
    LET th == threads[i]
    IN  /\ saved_doc = None
        /\ th.pc = "store"
        /\ current_results' = th.results
        /\ results_origin' = th.target
        /\ after_queue' = after_queue \o
               (IF th.target = "calculate_in_thread"
                THEN <<Callback("display_results", th.results),
                       Callback("calculate_button", None)>>
                ELSE <<Callback("display_excel_results", th.results),
                       Callback("analyze_button", None)>>)
        /\ threads' = RemoveAt(threads, i)
        /\ UNCHANGED <<entries, excel_frame, calculate_button, analyze_button,
                       results_display, excel_results_display, gui_dialog, saver,
                       saved_doc, threads_started, critVars, corrVars, anovaVars,
                       ttestVars, wmVars>>

\* the event loop runs the oldest callback; a lambda that reads a deleted e
\* raises NameError, which Tk prints, and shows nothing
RunCallback ==
    LET cb == Head(after_queue)
    IN  /\ saved_doc = None
        /\ saver.pc \in {"idle", "dialog"}
        /\ after_queue # <<>>
        /\ after_queue' = Tail(after_queue)
        /\ results_display' =
               IF cb.op = "display_results" THEN cb.arg ELSE results_display
        /\ excel_results_display' =
               IF cb.op = "display_excel_results" THEN cb.arg ELSE excel_results_display
        /\ gui_dialog' =
               CASE cb.op = "display_results"       -> InfoDialog("Calculation Complete")
                 [] cb.op = "display_excel_results" -> InfoDialog("Analysis Complete")
                 [] cb.op = "showerror"             -> cb.arg
                 [] cb.op = "showerror_e" /\ cb.e # 0 -> cb.arg
                 [] OTHER                           -> gui_dialog
        /\ calculate_button' =
               IF cb.op = "calculate_button" THEN "normal" ELSE calculate_button
        /\ analyze_button' =
               IF cb.op = "analyze_button" THEN "normal" ELSE analyze_button
        /\ UNCHANGED <<entries, excel_frame, current_results, threads, saver, saved_doc,
                       threads_started, results_origin,
                       critVars, corrVars, anovaVars, ttestVars, wmVars>>

\* a test on a key that the results of both tabs have
is_excel_by_sample_size(res) == "sample_size" \in DOMAIN res

\* lines 499-503 of save_results
IsExcel(res) == "column_1" \in DOMAIN res /\ "r_value" \in DOMAIN res

\* the keys save_manual_results_to_doc and save_excel_results_to_doc read from
\* self.current_results, in the order of the reads, each with its formatting
SaveFields(is_excel) ==
    IF is_excel
    THEN << <<"column_1", "str">>, <<"column_2", "str">>, <<"r_value", ".6f">>,
            <<"p_value", ".6f">>, <<"sample_size", "str">>, <<"alpha", "str">>,
            <<"is_significant", "text">>, <<"significance_interpretation", "str">> >>
    ELSE << <<"test_type", "title">>, <<"sample_size", "str">>, <<"alpha", "str">>,
            <<"degrees_of_freedom", "str">>, <<"t_critical", ".6f">>,
            <<"r_critical", ".6f">> >>

\* the two keys of an Excel result that FinalResults leaves out, both
\* functions of the fields it keeps
DerivedKeys == {"p_value", "significance_interpretation"}

HasKey(res, key) == key \in DOMAIN res \/ (key \in DerivedKeys /\ IsExcel(res))

ResultField(res, key) ==
    CASE key = "p_value" ->
             [k |-> "pearsonr p", r_value |-> res.r_value, n |-> res.sample_size]
      [] key = "significance_interpretation" ->
             [k |-> "text", is_significant |-> res.is_significant, alpha |-> res.alpha,
              r_value |-> FAbs(res.r_value), r_critical |-> res.r_critical]
      [] OTHER -> res[key]

\* a cell or run of the document: the key read, how it is formatted, its value
Cell(res, field) == [key |-> field[1], fmt |-> field[2], value |-> ResultField(res, field[1])]

\* the document save_results writes for a result that does not change meanwhile
Render(res) ==
    [is_excel |-> IsExcel(res),
     doc      |-> [i \in 1 .. Len(SaveFields(IsExcel(res))) |->
                      Cell(res, SaveFields(IsExcel(res))[i])]]

\* save_results up to the file dialog
SaveResults ==
    /\ MainIdle
    /\ IF current_results = None
       THEN /\ gui_dialog' = [kind |-> "warning", title |-> "No Results",
                              msg |-> "Please calculate results before saving."]
            /\ UNCHANGED saver
       ELSE /\ saver' = [SaverIdle EXCEPT !.pc = "dialog", !.found = current_results]
            /\ gui_dialog' = None
    /\ UNCHANGED <<entries, excel_frame, current_results, calculate_button,
                   analyze_button, threads, after_queue, results_display,
                   excel_results_display, saved_doc, threads_started, results_origin,
                   critVars, corrVars, anovaVars, ttestVars, wmVars>>

\* the file dialog closes with a path ("" when cancelled), and save_results
\* goes on to line 499, where it picks the layout
SaveDialog(filepath) ==
    /\ saver.pc = "dialog"
    /\ saver' = IF filepath = "" THEN SaverIdle
                ELSE [saver EXCEPT !.pc = "read", !.is_excel = IsExcel(current_results)]
    /\ UNCHANGED <<entries, excel_frame, current_results, calculate_button,
                   analyze_button, threads, after_queue, results_display,
                   excel_results_display, gui_dialog, saved_doc, threads_started,
                   results_origin, critVars, corrVars, anovaVars, ttestVars, wmVars>>

\* one read of self.current_results[key] in save_*_results_to_doc; a missing
\* key raises KeyError, which save_results reports
SaveRead ==
    LET field == SaveFields(saver.is_excel)[Len(saver.doc) + 1]
    IN  /\ saver.pc = "read"
        /\ Len(saver.doc) < Len(SaveFields(saver.is_excel))
        /\ IF HasKey(current_results, field[1])
           THEN /\ saver' = [saver EXCEPT !.doc = Append(@, Cell(current_results, field))]
                /\ UNCHANGED gui_dialog
           ELSE /\ saver' = SaverIdle
                /\ gui_dialog' = ErrorDialog("Save Error", "Failed to save results")
        /\ UNCHANGED <<entries, excel_frame, current_results, calculate_button,
                       analyze_button, threads, after_queue, results_display,
                       excel_results_display, saved_doc, threads_started, results_origin,
                       critVars, corrVars, anovaVars, ttestVars, wmVars>>

\* doc.save(filepath) and the dialog that reports it
SaveWrite ==
    /\ saver.pc = "read"
    /\ Len(saver.doc) = Len(SaveFields(saver.is_excel))
    /\ saved_doc' = [is_excel |-> saver.is_excel, doc |-> saver.doc,
                     found |-> saver.found]
    /\ gui_dialog' = InfoDialog("Save Successful")
    /\ saver' = SaverIdle
    /\ UNCHANGED <<entries, excel_frame, current_results, calculate_button,
                   analyze_button, threads, after_queue, results_display,
                   excel_results_display, threads_started, results_origin,
                   critVars, corrVars, anovaVars, ttestVars, wmVars>>

GuiNext ==
    \/ \E field \in EntryFields : \E text \in EntryTexts(field) : EditEntry(field, text)
    \/ \E f \in {excel} : LoadFile(f)
    \/ \E menu \in {"col2"}, col \in Cols : SelectColumn(menu, col)
    \/ OnCalculateClick
    \/ AnalyzeFile
    \/ \E i \in 1 .. Len(threads) : ThreadRun(i)
    \/ \E i \in 1 .. Len(threads) : ThreadFinally(i)
    \/ \E i \in 1 .. Len(threads) : ThreadStore(i)
    \/ RunCallback
    \/ SaveResults
    \/ \E filepath \in {"", "results.docx"} : SaveDialog(filepath)
    \/ SaveRead
    \/ SaveWrite

\* the manual tab without the save button
ManualFields == {"sample_size_entry", "alpha_entry", "test_type_var"}
ManualTabNext ==
    \/ \E field \in ManualFields : \E text \in EntryTexts(field) : EditEntry(field, text)
    \/ OnCalculateClick
    \/ \E i \in 1 .. Len(threads) : ThreadRun(i)
    \/ \E i \in 1 .. Len(threads) : ThreadFinally(i)
    \/ \E i \in 1 .. Len(threads) : ThreadStore(i)
    \/ RunCallback

\* the Excel tab without the save button: every way an analysis can fail
ExcelFields == {"excel_alpha_entry", "excel_test_type_var"}
ExcelTabNext ==
    \/ \E field \in ExcelFields : \E text \in EntryTexts(field) : EditEntry(field, text)
    \/ \E f \in {excel} : LoadFile(f)
    \/ DeleteFile
    \/ \E menu \in {"col2"}, col \in Cols : SelectColumn(menu, col)
    \/ AnalyzeFile
    \/ \E i \in 1 .. Len(threads) : ThreadRun(i)
    \/ \E i \in 1 .. Len(threads) : ThreadFinally(i)
    \/ \E i \in 1 .. Len(threads) : ThreadStore(i)
    \/ RunCallback

\* the Excel tab with its entry left alone: every file the user can pick
BrowseNext ==
    \/ \E f \in {excel, EmptyFile, TextSheet} : LoadFile(f)
    \/ \E menu \in {"col2"}, col \in Cols : SelectColumn(menu, col)
    \/ AnalyzeFile
    \/ \E i \in 1 .. Len(threads) : ThreadRun(i)
    \/ \E i \in 1 .. Len(threads) : ThreadStore(i)
    \/ RunCallback

\* the window with its entries left alone: calculations, analyses and saves
SaveNext ==
    \/ \E f \in {excel} : LoadFile(f)
    \/ OnCalculateClick
    \/ AnalyzeFile
    \/ \E i \in 1 .. Len(threads) : ThreadRun(i)
    \/ \E i \in 1 .. Len(threads) : ThreadStore(i)
    \/ RunCallback
    \/ SaveResults
    \/ \E filepath \in {"", "results.docx"} : SaveDialog(filepath)
    \/ SaveRead
    \/ SaveWrite

-----------------------------------------------------------------------------
(* weighted_mean.py.  A line typed at a prompt is Num(v) when int() accepts *)
(* it (v its value, negative values included) and Bad when int() raises     *)
(* ValueError, which ends the script.                                       *)

MaxFreq == 2                  \* largest frequency typed

FreqTexts == {Bad} \cup {Num(v) : v \in -1 .. MaxFreq}

\* the lines typed up to and including the first one int() rejects
RECURSIVE Prompted(_)
Prompted(lines) ==
    IF lines = <<>> THEN <<>>
    ELSE IF Head(lines) = Bad THEN <<Bad>>
    ELSE <<Head(lines)>> \o Prompted(Tail(lines))

\* lines 9-20 of weighted_mean, on the four frequencies
weighted_mean(f4, f3, f2, f1) ==
    LET weighted_sum == (4 * f4) + (3 * f3) + (2 * f2) + (1 * f1)
        total_f      == f4 + f3 + f2 + f1
    IN  IF total_f = 0
        THEN [kind |-> "no respondents", error |-> "", w_mean |-> None, text |-> None]
        ELSE [kind |-> "mean", error |-> "", w_mean |-> Rat(weighted_sum, total_f),
              text |-> Fmt2(Rat(weighted_sum, total_f))]

\* one run of the script, on the four lines typed
WeightedMean(lines) ==
    /\ wm_out = None
    /\ wm_freq' = Prompted(lines)
    /\ wm_out' = IF \E i \in 1 .. 4 : lines[i] = Bad
                 THEN [kind |-> "raised", error |-> "ValueError", w_mean |-> None,
                       text |-> None]
                 ELSE weighted_mean(lines[1].v, lines[2].v, lines[3].v, lines[4].v)
    /\ UNCHANGED <<critVars, corrVars, anovaVars, ttestVars, guiVars>>

WeightedNext == \E lines \in [1 .. 4 -> FreqTexts] : WeightedMean(lines)

-----------------------------------------------------------------------------
(* Specifications.  Each one runs one part of the repository and leaves the *)
(* variables of the other parts at their initial values.                    *)

InitCrit ==
    /\ crit_call = None /\ crit_mass = None /\ crit_out = None
    /\ excel = NoFile /\ corr_call = None /\ corr_out = None
    /\ groups = <<>> /\ anova_out = None /\ prompt_msg = ""
    /\ group1_text = <<>> /\ group2_text = <<>>
    /\ ttest_results = None /\ results_text = None /\ save_button = "disabled"
    /\ status_label = "" /\ ttest_dialog = "" /\ ttest_doc = None /\ now = 0
    /\ report_entries = [title |-> "", byline |-> ""]
    /\ entries = [sample_size_entry |-> Num(MaxN * NScale), alpha_entry |-> Num(500),
                  test_type_var |-> TwoTailed, excel_alpha_entry |-> Num(500),
                  excel_test_type_var |-> TwoTailed]
    /\ excel_frame = [current_filepath |-> FALSE, col1 |-> "", col2 |-> ""]
    /\ current_results = None
    /\ calculate_button = "normal" /\ analyze_button = "disabled"
    /\ threads = <<>> /\ after_queue = <<>>
    /\ results_display = None /\ excel_results_display = None
    /\ gui_dialog = None /\ saver = SaverIdle /\ saved_doc = None
    /\ threads_started = 0 /\ results_origin = ""
    /\ wm_freq = <<>> /\ wm_out = None

SpecCrit == InitCrit /\ [][CritNext]_vars

\* one request per behaviour, on any of the sheets
InitCorr ==
    /\ crit_call = None /\ crit_mass = None /\ crit_out = None
    /\ excel \in ExcelFiles \cup {NoFile, EmptyFile}
    /\ corr_call = None /\ corr_out = None
    /\ groups = <<>> /\ anova_out = None /\ prompt_msg = ""
    /\ group1_text = <<>> /\ group2_text = <<>>
    /\ ttest_results = None /\ results_text = None /\ save_button = "disabled"
    /\ status_label = "" /\ ttest_dialog = "" /\ ttest_doc = None /\ now = 0
    /\ report_entries = [title |-> "", byline |-> ""]
    /\ entries = [sample_size_entry |-> Num(MaxN * NScale), alpha_entry |-> Num(500),
                  test_type_var |-> TwoTailed, excel_alpha_entry |-> Num(500),
                  excel_test_type_var |-> TwoTailed]
    /\ excel_frame = [current_filepath |-> FALSE, col1 |-> "", col2 |-> ""]
    /\ current_results = None
    /\ calculate_button = "normal" /\ analyze_button = "disabled"
    /\ threads = <<>> /\ after_queue = <<>>
    /\ results_display = None /\ excel_results_display = None
    /\ gui_dialog = None /\ saver = SaverIdle /\ saved_doc = None
    /\ threads_started = 0 /\ results_origin = ""
    /\ wm_freq = <<>> /\ wm_out = None

SpecCorr == InitCorr /\ [][CorrNext]_vars

\* one run per behaviour, on any group set
InitAnova ==
    /\ crit_call = None /\ crit_mass = None /\ crit_out = None
    /\ excel = NoFile /\ corr_call = None /\ corr_out = None
    /\ groups \in GroupSets /\ anova_out = None /\ prompt_msg = ""
    /\ group1_text = <<>> /\ group2_text = <<>>
    /\ ttest_results = None /\ results_text = None /\ save_button = "disabled"
    /\ status_label = "" /\ ttest_dialog = "" /\ ttest_doc = None /\ now = 0
    /\ report_entries = [title |-> "", byline |-> ""]
    /\ entries = [sample_size_entry |-> Num(MaxN * NScale), alpha_entry |-> Num(500),
                  test_type_var |-> TwoTailed, excel_alpha_entry |-> Num(500),
                  excel_test_type_var |-> TwoTailed]
    /\ excel_frame = [current_filepath |-> FALSE, col1 |-> "", col2 |-> ""]
    /\ current_results = None
    /\ calculate_button = "normal" /\ analyze_button = "disabled"
    /\ threads = <<>> /\ after_queue = <<>>
    /\ results_display = None /\ excel_results_display = None
    /\ gui_dialog = None /\ saver = SaverIdle /\ saved_doc = None
    /\ threads_started = 0 /\ results_origin = ""
    /\ wm_freq = <<>> /\ wm_out = None

SpecAnova == InitAnova /\ [][AnovaNext]_vars

\* the console script from its first prompt
InitInput ==
    /\ crit_call = None /\ crit_mass = None /\ crit_out = None
    /\ excel = NoFile /\ corr_call = None /\ corr_out = None
    /\ groups = <<>> /\ anova_out = None /\ prompt_msg = ""
    /\ group1_text = <<>> /\ group2_text = <<>>
    /\ ttest_results = None /\ results_text = None /\ save_button = "disabled"
    /\ status_label = "" /\ ttest_dialog = "" /\ ttest_doc = None /\ now = 0
    /\ report_entries = [title |-> "", byline |-> ""]
    /\ entries = [sample_size_entry |-> Num(MaxN * NScale), alpha_entry |-> Num(500),
                  test_type_var |-> TwoTailed, excel_alpha_entry |-> Num(500),
                  excel_test_type_var |-> TwoTailed]
    /\ excel_frame = [current_filepath |-> FALSE, col1 |-> "", col2 |-> ""]
    /\ current_results = None
    /\ calculate_button = "normal" /\ analyze_button = "disabled"
    /\ threads = <<>> /\ after_queue = <<>>
    /\ results_display = None /\ excel_results_display = None
    /\ gui_dialog = None /\ saver = SaverIdle /\ saved_doc = None
    /\ threads_started = 0 /\ results_origin = ""
    /\ wm_freq = <<>> /\ wm_out = None

SpecInput == InitInput /\ [][InputNext]_vars

\* one report per behaviour, on group sets whose means can differ significantly
InitPostHoc ==
    /\ crit_call = None /\ crit_mass = None /\ crit_out = None
    /\ excel = NoFile /\ corr_call = None /\ corr_out = None
    /\ groups \in ScoredGroupSets /\ anova_out = None /\ prompt_msg = ""
    /\ group1_text = <<>> /\ group2_text = <<>>
    /\ ttest_results = None /\ results_text = None /\ save_button = "disabled"
    /\ status_label = "" /\ ttest_dialog = "" /\ ttest_doc = None /\ now = 0
    /\ report_entries = [title |-> "", byline |-> ""]
    /\ entries = [sample_size_entry |-> Num(MaxN * NScale), alpha_entry |-> Num(500),
                  test_type_var |-> TwoTailed, excel_alpha_entry |-> Num(500),
                  excel_test_type_var |-> TwoTailed]
    /\ excel_frame = [current_filepath |-> FALSE, col1 |-> "", col2 |-> ""]
    /\ current_results = None
    /\ calculate_button = "normal" /\ analyze_button = "disabled"
    /\ threads = <<>> /\ after_queue = <<>>
    /\ results_display = None /\ excel_results_display = None
    /\ gui_dialog = None /\ saver = SaverIdle /\ saved_doc = None
    /\ threads_started = 0 /\ results_origin = ""
    /\ wm_freq = <<>> /\ wm_out = None

SpecPostHoc == InitPostHoc /\ [][PostHocNext]_vars

\* one report per behaviour, on group sets whose groups may differ in size
InitLabels ==
    /\ crit_call = None /\ crit_mass = None /\ crit_out = None
    /\ excel = NoFile /\ corr_call = None /\ corr_out = None
    /\ groups \in SizedGroupSets /\ anova_out = None /\ prompt_msg = ""
    /\ group1_text = <<>> /\ group2_text = <<>>
    /\ ttest_results = None /\ results_text = None /\ save_button = "disabled"
    /\ status_label = "" /\ ttest_dialog = "" /\ ttest_doc = None /\ now = 0
    /\ report_entries = [title |-> "", byline |-> ""]
    /\ entries = [sample_size_entry |-> Num(MaxN * NScale), alpha_entry |-> Num(500),
                  test_type_var |-> TwoTailed, excel_alpha_entry |-> Num(500),
                  excel_test_type_var |-> TwoTailed]
    /\ excel_frame = [current_filepath |-> FALSE, col1 |-> "", col2 |-> ""]
    /\ current_results = None
    /\ calculate_button = "normal" /\ analyze_button = "disabled"
    /\ threads = <<>> /\ after_queue = <<>>
    /\ results_display = None /\ excel_results_display = None
    /\ gui_dialog = None /\ saver = SaverIdle /\ saved_doc = None
    /\ threads_started = 0 /\ results_origin = ""
    /\ wm_freq = <<>> /\ wm_out = None

SpecLabels == InitLabels /\ [][PostHocNext]_vars

\* the t-test window after __init__
InitTTest ==
    /\ crit_call = None /\ crit_mass = None /\ crit_out = None
    /\ excel = NoFile /\ corr_call = None /\ corr_out = None
    /\ groups = <<>> /\ anova_out = None /\ prompt_msg = ""
    /\ group1_text = <<>> /\ group2_text = <<>>
    /\ ttest_results = None /\ results_text = None /\ save_button = "disabled"
    /\ status_label = "" /\ ttest_dialog = "" /\ ttest_doc = None /\ now = 0
    /\ report_entries = [title |-> "", byline |-> ""]
    /\ entries = [sample_size_entry |-> Num(MaxN * NScale), alpha_entry |-> Num(500),
                  test_type_var |-> TwoTailed, excel_alpha_entry |-> Num(500),
                  excel_test_type_var |-> TwoTailed]
    /\ excel_frame = [current_filepath |-> FALSE, col1 |-> "", col2 |-> ""]
    /\ current_results = None
    /\ calculate_button = "normal" /\ analyze_button = "disabled"
    /\ threads = <<>> /\ after_queue = <<>>
    /\ results_display = None /\ excel_results_display = None
    /\ gui_dialog = None /\ saver = SaverIdle /\ saved_doc = None
    /\ threads_started = 0 /\ results_origin = ""
    /\ wm_freq = <<>> /\ wm_out = None

SpecTTest == InitTTest /\ [][TTestNext]_vars

\* the same window, with every entry edited
SpecWindow == InitTTest /\ [][WindowNext]_vars

\* weighted_mean.py before its first prompt
InitWeighted ==
    /\ crit_call = None /\ crit_mass = None /\ crit_out = None
    /\ excel = NoFile /\ corr_call = None /\ corr_out = None
    /\ groups = <<>> /\ anova_out = None /\ prompt_msg = ""
    /\ group1_text = <<>> /\ group2_text = <<>>
    /\ ttest_results = None /\ results_text = None /\ save_button = "disabled"
    /\ status_label = "" /\ ttest_dialog = "" /\ ttest_doc = None /\ now = 0
    /\ report_entries = [title |-> "", byline |-> ""]
    /\ entries = [sample_size_entry |-> Num(MaxN * NScale), alpha_entry |-> Num(500),
                  test_type_var |-> TwoTailed, excel_alpha_entry |-> Num(500),
                  excel_test_type_var |-> TwoTailed]
    /\ excel_frame = [current_filepath |-> FALSE, col1 |-> "", col2 |-> ""]
    /\ current_results = None
    /\ calculate_button = "normal" /\ analyze_button = "disabled"
    /\ threads = <<>> /\ after_queue = <<>>
    /\ results_display = None /\ excel_results_display = None
    /\ gui_dialog = None /\ saver = SaverIdle /\ saved_doc = None
    /\ threads_started = 0 /\ results_origin = ""
    /\ wm_freq = <<>> /\ wm_out = None

SpecWeighted == InitWeighted /\ [][WeightedNext]_vars

\* the critical-value window after __init__, with the sheet on disk
InitGui ==
    /\ crit_call = None /\ crit_mass = None /\ crit_out = None
    /\ excel = GuiSheet /\ corr_call = None /\ corr_out = None
    /\ groups = <<>> /\ anova_out = None /\ prompt_msg = ""
    /\ group1_text = <<>> /\ group2_text = <<>>
    /\ ttest_results = None /\ results_text = None /\ save_button = "disabled"
    /\ status_label = "" /\ ttest_dialog = "" /\ ttest_doc = None /\ now = 0
    /\ report_entries = [title |-> "", byline |-> ""]
    /\ entries = [sample_size_entry |-> Num(MaxN * NScale), alpha_entry |-> Num(500),
                  test_type_var |-> TwoTailed, excel_alpha_entry |-> Num(500),
                  excel_test_type_var |-> TwoTailed]
    /\ excel_frame = [current_filepath |-> FALSE, col1 |-> "", col2 |-> ""]
    /\ current_results = None
    /\ calculate_button = "normal" /\ analyze_button = "disabled"
    /\ threads = <<>> /\ after_queue = <<>>
    /\ results_display = None /\ excel_results_display = None
    /\ gui_dialog = None /\ saver = SaverIdle /\ saved_doc = None
    /\ threads_started = 0 /\ results_origin = ""
    /\ wm_freq = <<>> /\ wm_out = None

SpecGui == InitGui /\ [][GuiNext]_vars

SpecManualTab == InitGui /\ [][ManualTabNext]_vars

SpecExcelTab == InitGui /\ [][ExcelTabNext]_vars

SpecBrowse == InitGui /\ [][BrowseNext]_vars

SpecSave == InitGui /\ [][SaveNext]_vars

-----------------------------------------------------------------------------
(* Properties of the correlation analysis (SpecCorr) *)

\* the correlation results held by the state
CorrResults ==
    IF corr_out.kind = "result" THEN {corr_out.res}
    ELSE IF corr_out.kind = "list" THEN {corr_out.res[i] : i \in DOMAIN corr_out.res}
    ELSE {}

\* the rows of the sheet on which both columns hold a value
CompleteRows(col1, col2) ==
    {i \in 1 .. NumRows(excel) :
        ~IsNaN(excel.data[col1][i]) /\ ~IsNaN(excel.data[col2][i])}

\* the column takes two different values over the rows
Varies(col, rows) == \E i, j \in rows : excel.data[col][i] # excel.data[col][j]

Numeric(col) == col \in Cols /\ excel.dtype[col] = "number"

\* C1: in every result of analyze_excel_correlation and of
\* get_all_correlation_pairs, is_significant is true exactly when |r_value| is
\* strictly greater than r_critical, and r_critical is the critical value of the
\* result's own sample_size, alpha and test_type.
C1_SignificantIffAboveCritical ==
    \A r \in CorrResults :
        /\ r.is_significant <=>
              /\ IsNum(r.r_value) /\ IsNum(r.r_critical)
              /\ AbsInt(r.r_value.v) > r.r_critical.v
        /\ r.r_critical =
              compute_pearson_r_critical(r.sample_size, r.alpha, r.test_type).r_critical

\* a negative correlation that is significant, and (in another result of the same
\* list) |r| equal to the critical value, which is not significant
C1_Witness ==
    /\ corr_out.kind = "list"
    /\ \E r \in CorrResults : r.is_significant /\ r.r_value.v < 0
    /\ \E r \in CorrResults :
          ~r.is_significant /\ IsNum(r.r_critical) /\ AbsInt(r.r_value.v) = r.r_critical.v

C4_PairwiseRemovalOfMissingRows ==
    \A r \in CorrResults :
        LET complete == CompleteRows(r.column_1, r.column_2)
        IN  /\ {r.used[j] : j \in DOMAIN r.used} = complete
            /\ Len(r.used) = Cardinality(complete)
            /\ Len(r.x) = Len(r.y) /\ Len(r.x) = Len(r.used)
            /\ \A j \in DOMAIN r.used :
                  /\ excel.data[r.column_1][r.used[j]] = Num(r.x[j])
                  /\ excel.data[r.column_2][r.used[j]] = Num(r.y[j])
            /\ r.sample_size = Cardinality(complete)
            /\ r.degrees_of_freedom = r.sample_size - 2
            /\ r.original_rows = NumRows(excel)
            /\ r.rows_with_missing = NumRows(excel) - Cardinality(complete)

\* a result over fewer rows than the sheet has, with cells missing in both columns
C4_Witness ==
    /\ corr_out.kind = "result"
    /\ corr_out.res.sample_size = 3 /\ corr_out.res.original_rows = 4
    /\ \E i \in 1 .. NumRows(excel) : IsNaN(excel.data[corr_out.res.column_1][i])
    /\ \E i \in 1 .. NumRows(excel) : IsNaN(excel.data[corr_out.res.column_2][i])

-----------------------------------------------------------------------------
(* Properties of the critical value (SpecCrit) *)

InOpenUnitInterval(alpha) == IsNum(alpha) /\ 0 < alpha.v /\ alpha.v < AlphaScale

\* C5: no critical-value result is produced for n < 3 or for alpha outside (0, 1).
C5_InvalidInputsRejected ==
    crit_out.kind = "result" =>
        /\ crit_out.res.sample_size >= 3
        /\ InOpenUnitInterval(crit_out.res.alpha)

\* C6: the probability mass handed to t.ppf is 1 - alpha/2 for "two-tailed" and
\* 1 - alpha for every other test type, so a one-tailed request at alpha uses
\* the mass of a two-tailed request at 2 * alpha.
C6_ProbabilityMassByTailMode ==
    (crit_out.kind = "result" /\ IsNum(crit_out.args.alpha)) =>
        LET a  == crit_out.args.alpha.v
            tt == crit_out.args.test_type
        IN  /\ IsNum(crit_mass)
            /\ tt = TwoTailed => crit_mass.v = MassScale - a
            /\ tt # TwoTailed => crit_mass.v = MassScale - 2 * a
            /\ tt = OneTailed => crit_mass = ProbabilityMass(Num(2 * a), TwoTailed)
            /\ crit_out.res.t_critical =
                  TPpf(crit_mass, crit_out.res.degrees_of_freedom)

\* a one-tailed request at alpha = 0.05: mass 0.95
C6_Witness ==
    /\ crit_out.kind = "result"
    /\ crit_out.args.test_type = OneTailed
    /\ crit_out.args.alpha = Num(500)
    /\ crit_mass = Num(19000)

\* C7: every result has degrees_of_freedom = n - 2 and carries n, alpha and the
\* test type it was computed for; for n >= 3 the degrees of freedom are >= 1.
C7_DegreesOfFreedomAndEcho ==
    crit_out.kind = "result" =>
        /\ crit_out.res.degrees_of_freedom = crit_out.args.n - 2
        /\ crit_out.res.sample_size = crit_out.args.n
        /\ crit_out.res.alpha = crit_out.args.alpha
        /\ crit_out.res.test_type = crit_out.args.test_type
        /\ crit_call.op = "compute_pearson_r_critical" =>
              /\ Num(crit_out.res.sample_size * NScale) = crit_call.n_text
              /\ crit_out.res.alpha = crit_call.alpha_text
              /\ crit_out.res.test_type = crit_call.test_type
        /\ crit_out.args.n >= 3 => crit_out.res.degrees_of_freedom >= 1

C7_Witness ==
    /\ crit_out.kind = "result"
    /\ crit_out.args.n = 5 /\ crit_out.res.degrees_of_freedom = 3
    /\ crit_out.res.alpha = Num(1000) /\ crit_out.res.test_type = OneTailed

\* C8: for n >= 3 and alpha in (0, 1), r_critical^2 * (t_critical^2 + df) =
\* t_critical^2 up to the rounding of the fixed-point units (r^2 within 4/RScale
\* of t^2 / (t^2 + df)), and 0 <= r_critical <= 1.
C8_CriticalRFromCriticalT ==
    (crit_out.kind = "result" /\ crit_out.args.n >= 3
       /\ InOpenUnitInterval(crit_out.args.alpha)) =>
        LET res == crit_out.res
            t2  == res.t_critical.v * res.t_critical.v
            den == t2 + res.degrees_of_freedom * TScale * TScale
            r2  == (res.r_critical.v * res.r_critical.v) \div RScale
        IN  /\ IsNum(res.t_critical) /\ IsNum(res.r_critical)
            /\ r2 * den <= t2 * RScale
            /\ t2 * RScale < (r2 + 4) * den
            /\ 0 <= res.r_critical.v /\ res.r_critical.v <= RScale

\* n = 4, alpha = 0.05, two-tailed: t = 4.30, r = 0.950
C8_Witness ==
    /\ crit_out.kind = "result"
    /\ crit_out.args.n = 4 /\ crit_out.args.alpha = Num(500)
    /\ crit_out.args.test_type = TwoTailed
    /\ crit_out.res.t_critical = Num(430)
    /\ crit_out.res.r_critical.v >= 949 /\ crit_out.res.r_critical.v <= 951

-----------------------------------------------------------------------------
(* Properties of the ANOVA (SpecAnova) *)

TotalObservations == Len(Concatenate(groups))

\* C9: SS_between + SS_within = SS_total in what manual_anova returns, and the
\* Total row that main prints from SS_between + SS_within shows the SS_total
\* that create_anova_report wrote into the document.
C9_SumsOfSquaresAdd ==
    anova_out # None =>
        /\ IsRat(anova_out.anova.SS_between) /\ IsRat(anova_out.anova.SS_within)
        /\ RAdd(anova_out.anova.SS_between, anova_out.anova.SS_within)
              = anova_out.anova.SS_total
        /\ anova_out.kind = "main" =>
              anova_out.console.total.SS = anova_out.document.total.SS

\* a run of main with variation between the groups and inside them
C9_Witness ==
    /\ anova_out # None /\ anova_out.kind = "main"
    /\ anova_out.anova.SS_between.n > 0 /\ anova_out.anova.SS_within.n > 0
    /\ anova_out.console.total.SS = anova_out.document.total.SS
    /\ anova_out.document.total.SS.v > 0

\* C10: df_between = k - 1 and df_within = N - k, the Total row's degrees of
\* freedom are N - 1, MS_between = SS_between / (k - 1) and MS_within =
\* SS_within / (N - k) (where the divisor is not zero).
C10_DegreesOfFreedomAndMeanSquares ==
    anova_out # None =>
        LET a == anova_out.anova
            k == Len(groups)
            N == TotalObservations
        IN  /\ a.df_between = k - 1
            /\ a.df_within = N - k
            /\ anova_out.document # None => anova_out.document.total.df = N - 1
            /\ anova_out.console # None => anova_out.console.total.df = N - 1
            /\ k > 1 => (IsRat(a.MS_between)
                         /\ RMul(a.MS_between, Rat(k - 1, 1)) = a.SS_between)
            /\ N > k => (IsRat(a.MS_within)
                         /\ RMul(a.MS_within, Rat(N - k, 1)) = a.SS_within)

\* three groups of two observations: df 2 and 3, total 5
C10_Witness ==
    /\ anova_out # None /\ anova_out.kind = "main"
    /\ Len(groups) = 3 /\ TotalObservations = 6
    /\ anova_out.anova.df_between = 2 /\ anova_out.anova.df_within = 3
    /\ anova_out.console.total.df = 5
    /\ IsRat(anova_out.anova.MS_within) /\ anova_out.anova.MS_within.n > 0

-----------------------------------------------------------------------------
(* Properties of the ANOVA report (SpecAnova, SpecInput, SpecPostHoc) *)

\* a group set of at least two groups, each of at least two observations
ValidGroupSet(gs) ==
    /\ Len(gs) >= 2
    /\ \A i \in 1 .. Len(gs) : Len(gs[i]) >= 2

\* C11: whenever N - k <= 0 or MS_within = 0 the computation fails: it returns
\* no F (so never an infinite or undefined one) and writes no report.
C11_DegenerateInputRejected ==
    (anova_out # None /\ anova_out.kind # "raised") =>
        /\ TotalObservations - Len(groups) > 0
        /\ IsRat(anova_out.anova.MS_within) /\ anova_out.anova.MS_within.n # 0
        /\ IsRat(anova_out.anova.F_calculated)

C13_GroupSetInvariant ==
    /\ \A i \in 1 .. Len(groups) : Len(groups[i]) >= 2
    /\ prompt_msg \notin {"", "Added"} => anova_out = None
    /\ anova_out # None => (Len(groups) = MaxGroups /\ ValidGroupSet(groups))

\* main has run on the groups typed in
C13_Witness ==
    /\ anova_out # None /\ anova_out.kind = "main"
    /\ prompt_msg = "Added"
    /\ ValidGroupSet(groups)

\* C14: the post-hoc table is in the report, and on the console, exactly when
\* the p-value of f_oneway is below 0.05.
C14_PostHocOnlyWhenSignificant ==
    (anova_out # None /\ anova_out.kind # "raised") =>
        /\ anova_out.posthoc_table # None => PLt05(anova_out.p_value)
        /\ anova_out.console_posthoc # None => PLt05(anova_out.p_value)
        /\ (anova_out.kind = "create_anova_report" /\ PLt05(anova_out.p_value))
              => anova_out.posthoc_table # None
        /\ (anova_out.kind = "main" /\ PLt05(anova_out.p_value))
              => (anova_out.posthoc_table # None /\ anova_out.console_posthoc # None)

\* a run of main whose F is finite and beyond the critical value
C14_Witness ==
    /\ anova_out # None /\ anova_out.kind = "main"
    /\ IsRat(anova_out.F_statistic) /\ PLt05(anova_out.p_value)
    /\ anova_out.posthoc_table # None /\ Len(anova_out.posthoc_table) > 0
    /\ anova_out.console_posthoc = anova_out.posthoc_table

\* C15: the post-hoc table has one row for each pair of groups, in the order of
\* the groups the caller supplied: row p compares age_labels[i] with
\* age_labels[j] for the p-th pair i < j.
C15_PostHocPairsInCallerOrder ==
    (anova_out # None /\ anova_out.posthoc_table # None) =>
        LET k     == Len(groups)
            pairs == TriuIndices(k)
            table == anova_out.posthoc_table
        IN  /\ Len(table) = (k * (k - 1)) \div 2
            /\ \A p \in 1 .. Len(table) :
                  /\ table[p].group1 = age_labels[pairs[p][1]]
                  /\ table[p].group2 = age_labels[pairs[p][2]]

-----------------------------------------------------------------------------
(* Properties of the t-test window (SpecTTest) *)

InputErrors ==
    {"Input Error: Please enter data for both groups.",
     "Input Error: No valid numeric values found. Please enter numeric data.",
     "Input Error: Each group must have at least 2 values."}

\* C16: a compute_ttest on a sample of fewer than two numbers shows an input
\* error and leaves the stored results, the results box and the save button as
\* they were.
C16_SmallSampleFailsAndChangesNothing ==
    [][(ComputeTTest /\ (Len(parse_input(group1_text)) < 2
                          \/ Len(parse_input(group2_text)) < 2))
          => /\ ttest_dialog' \in InputErrors
             /\ UNCHANGED <<ttest_results, results_text, save_button>>]_vars

\* a compute on a one-number sample was refused while a result was stored
C16_Witness ==
    /\ ttest_results # None /\ save_button = "normal" /\ results_text # None
    /\ Len(parse_input(group1_text)) = 1
    /\ ttest_dialog = "Input Error: Each group must have at least 2 values."

\* C17: the test on the two samples in the other order has the negated t, the
\* means and sizes exchanged, and the same |t|, df, p-value and conclusion.
C17_SwapNegatesT ==
    ttest_results # None =>
        LET r == ttest_results
            s == welch(r.group2_data, r.group1_data)
        IN  /\ s.t_statistic = TNeg(r.t_statistic)
            /\ s.mean1 = r.mean2 /\ s.mean2 = r.mean1
            /\ s.n1 = r.n2 /\ s.n2 = r.n1
            /\ TAbs(s.t_statistic) = TAbs(r.t_statistic)
            /\ s.df = r.df
            /\ s.p_value = r.p_value
            /\ conclusion_of(s.p_value) = r.conclusion

\* a result whose first mean is the smaller one: t < 0
C17_Witness ==
    /\ ttest_results # None
    /\ ttest_results.t_statistic.sign = -1
    /\ ttest_results.mean1 # ttest_results.mean2
    /\ ttest_results.group1_data # ttest_results.group2_data

\* C18: the stored conclusion is "significant" exactly when the stored p-value
\* is at most 0.05.
C18_ConclusionAtFixedAlpha ==
    ttest_results # None =>
        /\ ttest_results.conclusion \in {Significant, NotSignificant}
        /\ ttest_results.conclusion = Significant <=> PLe05(ttest_results.p_value)

\* a significant result is stored
C18_Witness ==
    /\ ttest_results # None
    /\ PLe05(ttest_results.p_value)
    /\ ttest_results.conclusion = Significant

\* C19: a compute on the inputs of the stored result stores an identical result.
C19_ComputeIsIdempotent ==
    [][(/\ ttest_results # None /\ ttest_results' # None
        /\ ttest_results'.group1_data = ttest_results.group1_data
        /\ ttest_results'.group2_data = ttest_results.group2_data)
          => ttest_results' = ttest_results]_vars


-----------------------------------------------------------------------------
(* Properties of the critical-value window (SpecGui) *)

\* C20: a document written by save_results renders one result, the one that
\* self.current_results held when save_results was invoked: no worker's result
\* has replaced it or is mixed into the document.
C20_SavedResultIsTheOneFound ==
    saved_doc # None =>
        /\ saved_doc.is_excel = Render(saved_doc.found).is_excel
        /\ saved_doc.doc = Render(saved_doc.found).doc


-----------------------------------------------------------------------------
(* Properties of the t-test window with all its entries (SpecWindow) *)

\* the save button is enabled exactly when a result is stored
SaveButtonMatchesResults == (save_button = "normal") <=> (ttest_results # None)

\* C25: the save button is enabled exactly when a result is stored, from the
\* start and after every operation: a successful compute turns both on,
\* clear_fields turns both off and empties every input and output field, and a
\* failed compute or a save changes neither.
C25_SaveButtonIffResults ==
    /\ SaveButtonMatchesResults
    /\ save_button = "disabled"
    /\ [][/\ SaveButtonMatchesResults'
          /\ (ComputeTTest /\ ttest_dialog' = "")
                => ttest_results' # None /\ save_button' = "normal"
          /\ (ComputeTTest /\ ttest_dialog' # "")
                => UNCHANGED <<ttest_results, save_button>>
          /\ (\E file_path \in {"", "results.docx"} : SaveToDocx(file_path))
                => UNCHANGED <<ttest_results, save_button>>
          /\ ClearFields
                => /\ ttest_results' = None /\ save_button' = "disabled"
                   /\ group1_text' = <<>> /\ group2_text' = <<>>
                   /\ report_entries' = [title |-> "", byline |-> ""]
                   /\ results_text' = None /\ status_label' = ""]_vars

\* a compute has failed while a result is stored: the result and the enabled
\* save button are still there
C25_Witness ==
    /\ ttest_results # None
    /\ save_button = "normal"
    /\ ttest_dialog \in InputErrors


-----------------------------------------------------------------------------
(* Properties of the post-hoc label vector (SpecLabels) *)

\* the number of observations in the groups before group g
Offset(gs, g) == Len(Concatenate(SubSeq(gs, 1, g - 1)))

\* C26: when the post-hoc block is entered on a valid group set, the label
\* vector it builds has one label for each observation, N in all, and the
\* label of an observation is the label of the group it came from.
C26_OneLabelPerObservation ==
    (anova_out # None /\ anova_out.labels # None /\ ValidGroupSet(groups)) =>
        /\ ~anova_out.labels.ragged
        /\ Len(anova_out.labels.labels) = Len(Concatenate(groups))
        /\ \A g \in 1 .. Len(groups) : \A j \in 1 .. Len(groups[g]) :
              anova_out.labels.labels[Offset(groups, g) + j] = age_labels[g]


-----------------------------------------------------------------------------
(* Properties of the weighted mean (SpecWeighted) *)

\* the sum of the frequencies typed
TotalFrequency == wm_freq[1].v + wm_freq[2].v + wm_freq[3].v + wm_freq[4].v

\* C29: weighted_mean never divides by zero (frequencies that sum to 0 give
\* the "no respondents" message and no mean), and every mean it reports for
\* four accepted frequencies lies between 1 and 4 inclusive.
C29_MeanWithinRatingScale ==
    (wm_out # None /\ Len(wm_freq) = 4 /\ wm_freq[4] # Bad) =>
        /\ wm_out.kind \in {"no respondents", "mean"}
        /\ wm_out.kind = "no respondents" <=> TotalFrequency = 0
        /\ wm_out.kind = "mean" =>
              /\ wm_out.w_mean.d <= wm_out.w_mean.n
              /\ wm_out.w_mean.n <= 4 * wm_out.w_mean.d


-----------------------------------------------------------------------------
(* Properties of the manual tab (SpecManualTab) *)

\* C24: the n and alpha a worker passes to compute_pearson_r_critical are the
\* validated ones, n a whole number of at least 3 and 0 < alpha < 1, whatever
\* is typed in the entries between the click and the worker's read of them.
C24_WorkerComputesValidatedInputs ==
    \A i \in 1 .. Len(threads) :
        (threads[i].target = "calculate_in_thread" /\ threads[i].pc = "store") =>
            /\ threads[i].results.sample_size >= 3
            /\ IsNum(threads[i].results.alpha)
            /\ 0 < threads[i].results.alpha.v
            /\ threads[i].results.alpha.v < AlphaScale


-----------------------------------------------------------------------------
(* Properties of the Excel tab (SpecExcelTab) *)

\* the workers of one button that have started and not ended
InFlight(target) == {i \in 1 .. Len(threads) : threads[i].target = target}

\* C22: at most one worker of the calculate button and at most one worker of
\* the analyze button is in flight at any time.
C22_OneWorkerPerButton ==
    /\ Cardinality(InFlight("calculate_in_thread")) <= 1
    /\ Cardinality(InFlight("run_analysis")) <= 1


\* the oldest callback reports the failure of a worker
ReportsFailure ==
    after_queue # <<>> /\ Head(after_queue).op \in {"showerror", "showerror_e"}

\* C23: whenever the event loop runs the callback a failed worker handed to
\* it, the error dialog of that failure, with its reason, is shown.
C23_FailureDialogShown ==
    [][(ReportsFailure /\ RunCallback) => gui_dialog' = Head(after_queue).arg]_vars


\* the keys of the dictionary compute_pearson_r_critical returns, and those
\* of the dictionary analyze_excel_correlation returns
ManualKeys ==
    {"sample_size", "alpha", "test_type", "degrees_of_freedom", "t_critical",
     "r_critical"}
ExcelKeys ==
    ManualKeys \cup {"column_1", "column_2", "r_value", "original_rows",
                     "rows_with_missing", "is_significant"}
CompleteResult(res) ==
    res # None /\ (DOMAIN res = ManualKeys \/ ExcelKeys \subseteq DOMAIN res)

\* C21: current_results is None until a worker that succeeded assigns it the
\* complete record it computed; every other step, a worker's failure on an
\* invalid alpha, an unreadable file, a column that fails validation or an
\* exception included, leaves it exactly as it was.
C21_FailureKeepsResults ==
    /\ current_results = None
    /\ [][current_results' # current_results =>
              /\ CompleteResult(current_results')
              /\ \E i \in 1 .. Len(threads) :
                    /\ threads[i].pc = "store"
                    /\ ThreadStore(i)
                    /\ current_results' = threads[i].results]_vars

\* an analysis failed on an unreadable file with an earlier result stored
C21_Witness ==
    /\ current_results # None
    /\ gui_dialog = ErrorDialog("Analysis Error", "File not found")


-----------------------------------------------------------------------------
(* Properties of the file chooser of the Excel tab (SpecBrowse) *)

\* the names in the list get_numeric_columns returns for the file on disk
NumericColumns ==
    {get_numeric_columns(excel)[k] : k \in 1 .. Len(get_numeric_columns(excel))}

\* the analyze button is enabled only with a file loaded, the two menus then
\* hold numeric columns of it, and every analysis runs on two different columns
LoadedBeforeEnabled ==
    /\ analyze_button = "normal" => excel_frame.current_filepath
    /\ excel_frame.current_filepath =>
           /\ Len(get_numeric_columns(excel)) >= 2
           /\ excel_frame.col1 \in NumericColumns
           /\ excel_frame.col2 \in NumericColumns
    /\ \A i \in 1 .. Len(threads) :
           threads[i].target = "run_analysis" => threads[i].col1 # threads[i].col2

\* C28: the analyze button is enabled only once a file with at least two
\* numeric columns has been loaded; analyze_file starts an analysis only with
\* a file loaded and on two different columns, and with the same column
\* picked twice it shows an error and starts none.
C28_AnalyzeNeedsFileAndTwoColumns ==
    /\ LoadedBeforeEnabled
    /\ [][/\ LoadedBeforeEnabled'
          /\ (AnalyzeFile /\ excel_frame.col1 = excel_frame.col2) =>
                 /\ gui_dialog' = ErrorDialog("Invalid Selection",
                                              "Please select two different columns")
                 /\ UNCHANGED <<threads, analyze_button>>
          /\ Len(threads') > Len(threads) =>
                 /\ excel_frame.current_filepath
                 /\ excel_frame.col1 # excel_frame.col2]_vars

\* the same column picked twice: the error is shown and no analysis runs
C28_Witness ==
    /\ gui_dialog.kind = "error" /\ gui_dialog.title = "Invalid Selection"
    /\ excel_frame.col1 = excel_frame.col2
    /\ threads = <<>>
    /\ analyze_button = "normal"


-----------------------------------------------------------------------------
(* Properties of save_results (SpecSave) *)

=============================================================================
